---- MODULE Spec2Model ----
(***************************************************************************)
(* Incremental sync engine of redmine-context-cli: syncIssue (one issue    *)
(* into one Markdown file with YAML frontmatter and an anchored comments   *)
(* block), the Markdown codec of file.util.ts, the mappers of mappers.ts   *)
(* and the fan-out of syncProject.                                         *)
(*                                                                         *)
(* Text is a sequence of tokens.  "\n" and " " are whitespace; "S"/"E" are *)
(* the literal default anchors, "S2"/"E2" a configured non-default pair;   *)
(* "-" is the horizontal rule "---"; "h1","h2",... are comment headings;   *)
(* every other token is ordinary text.  A file is a frontmatter block      *)
(* (a mapping, EmptyFM when the block is missing) and the text after the   *)
(* closing delimiter line.                                                 *)
(***************************************************************************)
EXTENDS Integers, Sequences, FiniteSets, TLC

\* ---------------------------------------------------------------- bounds
MaxTime == 2
MaxJournals == 2
MaxRuns == 2
MaxPages == 3
\* the longest body handed to parseMarkdownContent on its own, in tokens
MaxBody == 5
\* the most journal entries in a list handed to a mapper on its own
MaxEntries == 3
\* the most generateSlug calls that share one set of slugs
MaxCalls == 4
\* the largest defaults.retry.retries of a configuration
MaxRetries == 3
\* the most filenames made by generateFilename on its own
MaxNames == 2

Issues == {1, 2}
\* the issues that change on the tracker while the model runs; the others
\* keep their first snapshot
Edited == {1}
Subjects == {"Fix bug", "Add x"}
Faults == {"none", "fetch", "read", "mkdir", "write"}

\* ------------------------------------------------------------- text tools
Null == -1

IsWs(t) == t \in {"\n", " "}

RECURSIVE TrimStart(_)
TrimStart(s) ==
  IF s # <<>> /\ IsWs(Head(s)) THEN TrimStart(Tail(s)) ELSE s

RECURSIVE TrimEnd(_)
TrimEnd(s) ==
  IF s # <<>> /\ IsWs(s[Len(s)]) THEN TrimEnd(SubSeq(s, 1, Len(s) - 1)) ELSE s

\* String.prototype.trim
Trim(s) == TrimEnd(TrimStart(s))

\* String.prototype.indexOf, 1-based, 0 when the token does not occur
IndexOf(s, t) ==
  IF \E k \in 1..Len(s) : s[k] = t
  THEN CHOOSE k \in 1..Len(s) : s[k] = t /\ \A m \in 1..(k - 1) : s[m] # t
  ELSE 0

\* an optional string: <<>> is null/undefined, <<text>> a present string
None == <<>>
Some(text) == <<text>>
Truthy(opt) == opt # None /\ opt[1] # <<>>

\* --------------------------------------------------------- configuration
DefaultAnchors == [start |-> "S", end |-> "E"]
CustomAnchors == [start |-> "S2", end |-> "E2"]

DefaultPattern == "{issueId}-{slug}.md"
SlugPattern == "{slug}.md"
\* defaults.concurrency of the configuration
Concurrency == 1

\* the part of RedmineConfig the engine reads: defaults.include has
\* 'journals' or not, comments.anchors, filename.pattern
Configs ==
  [include : BOOLEAN,
   anchors : {DefaultAnchors, CustomAnchors},
   pattern : {DefaultPattern, SlugPattern}]

\* ------------------------------------------------------------- slug.util
\* slugify(title, {lower: true, strict: true}) on the model's subjects
generateSlug(title) ==
  CASE title = "Fix bug" -> "fix-bug"
    [] title = "Add x" -> "add-x"
    [] OTHER -> ""

\* pattern.replace('{issueId}', id).replace('{slug}', slug); the name is
\* kept as the pair (id part, slug part), the id part 0 when the pattern
\* has no {issueId}
generateFilename(issueId, title, pattern) ==
  IF pattern = DefaultPattern
  THEN [idPart |-> issueId, slugPart |-> generateSlug(title)]
  ELSE [idPart |-> 0, slugPart |-> generateSlug(title)]

Paths ==
  [idPart : Issues \cup {0}, slugPart : {generateSlug(t) : t \in Subjects}]

\* ------------------------------------------------------------ file.util
EmptyFM ==
  [id |-> Null, subject |-> "", updated_on |-> Null, lastJournalId |-> Null]

NoFile == [exists |-> FALSE, fm |-> EmptyFM, rest |-> <<>>]

\* the ParsedMarkdown of an empty or missing file
EmptyDoc == [frontmatter |-> EmptyFM, content |-> <<>>, comments |-> None]

\* the text between the anchors taken as it stands
extractCommentsSection_Untrimmed(content) ==
  LET s == IndexOf(content, "S")
      e == IndexOf(content, "E")
  IN IF s = 0 \/ e = 0 THEN None
     ELSE IF s + 1 >= e THEN None
          ELSE Some(SubSeq(content, s + 1, e - 1))

extractCommentsSection(content) ==
  LET s == IndexOf(content, "S")
      e == IndexOf(content, "E")
  IN IF s = 0 \/ e = 0 THEN None
     ELSE LET startIndex == s + 1
              endIndex == e
          IN IF startIndex >= endIndex THEN None
             ELSE Some(Trim(SubSeq(content, startIndex, endIndex - 1)))

removeCommentsSection(content) ==
  LET s == IndexOf(content, "S")
      e == IndexOf(content, "E")
  IN IF s = 0 \/ e = 0 THEN content
     ELSE SubSeq(content, 1, s - 1) \o Trim(SubSeq(content, e + 1, Len(content)))

\* the test for empty input left out
parseMarkdownContent_NoEmptyCase(file) ==
  [frontmatter |-> file.fm,
   content |-> removeCommentsSection(file.rest),
   comments |-> extractCommentsSection(file.rest)]

\* gray-matter splits the block from the body and drops the line end of
\* the closing delimiter; the body is the text after it
parseMarkdownContent(file) ==
  IF file.fm = EmptyFM /\ Trim(file.rest) = <<>>
  THEN EmptyDoc
  ELSE [frontmatter |-> file.fm,
        content |-> removeCommentsSection(file.rest),
        comments |-> extractCommentsSection(file.rest)]

\* `---\n<yaml>---\n\n` + content + `\n\n<start>\n<comments>\n<end>`
buildMarkdownContent(data, anchors) ==
  [exists |-> TRUE,
   fm |-> data.frontmatter,
   rest |->
     (IF data.frontmatter # EmptyFM THEN <<"\n">> ELSE <<>>)
     \o data.content
     \o (IF Truthy(data.comments)
         THEN <<"\n", "\n", anchors.start, "\n">> \o data.comments[1]
              \o <<"\n", anchors.end>>
         ELSE <<>>)]

extractIssueIdFromFrontmatter(frontmatter) == frontmatter.id

extractLastJournalId(frontmatter) == frontmatter.lastJournalId

\* --------------------------------------------------------------- mappers
\* a journal is [id, notes]; notes is <<>> for a change-only entry
\* the first entry taken for the latest
MaxId_First(journals) == journals[1].id

MaxId(journals) ==
  CHOOSE m \in {journals[k].id : k \in 1..Len(journals)} :
    \A k \in 1..Len(journals) : journals[k].id <= m

mapIssueToFrontmatter(issue) ==
  [id |-> issue.id,
   subject |-> issue.subject,
   updated_on |-> issue.updated_on,
   lastJournalId |->
     IF issue.hasJournals /\ Len(issue.journals) > 0
     THEN MaxId(issue.journals)
     ELSE Null]

\* the description left out
mapIssueToContent_Empty(issue) == <<>>

mapIssueToContent(issue) == issue.description

\* [...journals].sort((a, b) => a.id - b.id)
RECURSIVE SortById(_)
SortById(journals) ==
  IF journals = <<>> THEN <<>>
  ELSE LET k == CHOOSE x \in 1..Len(journals) :
                  \A y \in 1..Len(journals) :
                    \/ journals[x].id < journals[y].id
                    \/ (journals[x].id = journals[y].id /\ x <= y)
           rest == [n \in 1..(Len(journals) - 1) |->
                      IF n < k THEN journals[n] ELSE journals[n + 1]]
       IN <<journals[k]>> \o SortById(rest)

\* `## user - date time` of one entry; the model's headings are distinct
Heading(journal) == "h" \o ToString(journal.id)

RECURSIVE RenderAll(_)
RenderAll(sorted) ==
  IF sorted = <<>> THEN <<>>
  ELSE LET journal == Head(sorted)
       IN (IF Trim(journal.notes) = <<>>
           THEN <<>>
           ELSE <<Heading(journal), "\n", "\n">> \o journal.notes
                \o <<"\n", "\n", "-", "\n", "\n">>)
          \o RenderAll(Tail(sorted))

mapJournalsToComments(journals) ==
  IF Len(journals) = 0 THEN <<>> ELSE Trim(RenderAll(SortById(journals)))

RECURSIVE FilterNewer(_, _)
FilterNewer(journals, lastJournalId) ==
  IF journals = <<>> THEN <<>>
  ELSE (IF Head(journals).id > lastJournalId THEN <<Head(journals)>> ELSE <<>>)
       \o FilterNewer(Tail(journals), lastJournalId)

\* >= for >
extractNewJournals_NotStrict(allJournals, lastJournalId) ==
  IF lastJournalId = Null \/ lastJournalId = 0
  THEN allJournals
  ELSE FilterNewer(allJournals, lastJournalId - 1)

\* !lastJournalId is true of null and of 0
extractNewJournals(allJournals, lastJournalId) ==
  IF lastJournalId = Null \/ lastJournalId = 0
  THEN allJournals
  ELSE FilterNewer(allJournals, lastJournalId)

\* >= for >
shouldUpdateIssue_NotStrict(remoteIssue, localFrontmatter) ==
  IF localFrontmatter.updated_on = Null
  THEN TRUE
  ELSE remoteIssue.updated_on >= localFrontmatter.updated_on

shouldUpdateIssue(remoteIssue, localFrontmatter) ==
  IF localFrontmatter.updated_on = Null
  THEN TRUE
  ELSE remoteIssue.updated_on > localFrontmatter.updated_on

\* the case of a missing marker forgotten
shouldUpdateComments_NoMarkerCase(remoteJournals, localFrontmatter) ==
  \E k \in 1..Len(remoteJournals) :
    /\ localFrontmatter.lastJournalId # Null
    /\ remoteJournals[k].id > localFrontmatter.lastJournalId

shouldUpdateComments(remoteJournals, localFrontmatter) ==
  IF localFrontmatter.lastJournalId = Null \/ localFrontmatter.lastJournalId = 0
  THEN Len(remoteJournals) > 0
  ELSE \E k \in 1..Len(remoteJournals) :
         remoteJournals[k].id > localFrontmatter.lastJournalId

\* ------------------------------------------------------------ sync-issue
NoName == [idPart |-> Null, slugPart |-> ""]

\* the catch block of syncIssue: the requested id, no filename
FailedResult(issueId) ==
  [success |-> FALSE, issueId |-> issueId, filename |-> NoName,
   action |-> "skipped", message |-> "failed"]

\* client.getIssue(issueId, include): the remote snapshot; journals are
\* part of the response only when 'journals' is included
getIssue(issueId, include, rem) ==
  [id |-> issueId,
   subject |-> rem[issueId].subject,
   description |-> rem[issueId].description,
   updated_on |-> rem[issueId].updated_on,
   hasJournals |-> include,
   journals |-> IF include THEN rem[issueId].journals ELSE <<>>]

\* readMarkdownFile: ENOENT is the empty document
readMarkdownFile(file) ==
  IF file.exists THEN parseMarkdownContent(file) ELSE EmptyDoc

\* `existingIssueId && ...`: a recorded id is a non-null, non-zero number
HasId(existingIssueId) == existingIssueId # Null /\ existingIssueId # 0

\* the guard forgotten
IdentityConflict_NoGuard(issue, existingFile) == FALSE

IdentityConflict(issue, existingFile) ==
  LET existingIssueId == extractIssueIdFromFrontmatter(existingFile.frontmatter)
  IN HasId(existingIssueId) /\ existingIssueId # issue.id

\* lines 87-102: the comments text to write
ResolveComments(issue, existingFile, needsCommentsUpdate) ==
  IF needsCommentsUpdate /\ issue.hasJournals
  THEN LET newJournals ==
             extractNewJournals(issue.journals,
                                extractLastJournalId(existingFile.frontmatter))
       IN IF Len(newJournals) > 0
          THEN LET newComments == mapJournalsToComments(newJournals)
               IN IF Truthy(existingFile.comments)
                  THEN Some(existingFile.comments[1]
                            \o <<"\n", "\n", "-", "\n", "\n">> \o newComments)
                  ELSE Some(newComments)
          ELSE IF Truthy(existingFile.comments) THEN existingFile.comments ELSE None
  ELSE IF Truthy(existingFile.comments) THEN existingFile.comments ELSE None

ActionFor(existingFile) ==
  IF HasId(extractIssueIdFromFrontmatter(existingFile.frontmatter))
  THEN "updated" ELSE "created"

\* lines 51-143 after the fetch and the read: the decision, the result it
\* returns when no write is attempted or the write succeeds, and the
\* document handed to writeMarkdownFile
Decide(issueId, issue, existingFile, cfg, dryRun) ==
  LET filename == generateFilename(issue.id, issue.subject, cfg.pattern)
      needsUpdate == shouldUpdateIssue(issue, existingFile.frontmatter)
      needsCommentsUpdate ==
        shouldUpdateComments(issue.journals, existingFile.frontmatter)
      action == ActionFor(existingFile)
  IN IF IdentityConflict(issue, existingFile)
     THEN [kind |-> "conflict", data |-> EmptyDoc,
           result |-> [success |-> FALSE, issueId |-> issue.id,
                       filename |-> filename, action |-> "skipped",
                       message |-> "conflict"]]
     ELSE IF ~needsUpdate /\ ~needsCommentsUpdate
     THEN [kind |-> "uptodate", data |-> EmptyDoc,
           result |-> [success |-> TRUE, issueId |-> issue.id,
                       filename |-> filename, action |-> "skipped",
                       message |-> "up to date"]]
     ELSE LET data == [frontmatter |-> mapIssueToFrontmatter(issue),
                       content |-> mapIssueToContent(issue),
                       comments |-> ResolveComments(issue, existingFile,
                                                    needsCommentsUpdate)]
          IN IF dryRun
             THEN [kind |-> "dry", data |-> data,
                   result |-> [success |-> TRUE, issueId |-> issue.id,
                               filename |-> filename, action |-> action,
                               message |-> "would"]]
             ELSE [kind |-> "write", data |-> data,
                   result |-> [success |-> TRUE, issueId |-> issue.id,
                               filename |-> filename, action |-> action,
                               message |-> "done"]]

\* the directory created before the dry-run check
TryBody_DirBeforeDryRun(issueId, cfg, dryRun, fault, rem, fs, dir) ==
  LET issue == getIssue(issueId, cfg.include, rem)
      filename == generateFilename(issue.id, issue.subject, cfg.pattern)
      d == Decide(issueId, issue, readMarkdownFile(fs[filename]), cfg, dryRun)
      raised(dirNow) == [thrown |-> TRUE, result |-> FailedResult(0),
                         files |-> fs, dir |-> dirNow]
  IN IF fault = "fetch" THEN raised(dir)
     ELSE IF fault = "read" THEN raised(dir)
     ELSE IF d.kind \notin {"write", "dry"}
     THEN [thrown |-> FALSE, result |-> d.result, files |-> fs, dir |-> dir]
     ELSE IF fault = "mkdir" THEN raised(dir)
     ELSE IF d.kind = "dry"
     THEN [thrown |-> FALSE, result |-> d.result, files |-> fs, dir |-> TRUE]
     ELSE IF fault = "write" THEN raised(TRUE)
     ELSE [thrown |-> FALSE, result |-> d.result,
           files |-> [fs EXCEPT ![filename] =
                        buildMarkdownContent(d.data, cfg.anchors)],
           dir |-> TRUE]

\* the body of the try block run alone against remote rem, files fs and the
\* output directory: thrown tells whether an exception leaves the body,
\* result is what the body returns otherwise.  fault names the step whose
\* I/O fails in this call, if that step is reached.
TryBody(issueId, cfg, dryRun, fault, rem, fs, dir) ==
  LET issue == getIssue(issueId, cfg.include, rem)
      filename == generateFilename(issue.id, issue.subject, cfg.pattern)
      d == Decide(issueId, issue, readMarkdownFile(fs[filename]), cfg, dryRun)
      raised(dirNow) == [thrown |-> TRUE, result |-> FailedResult(0),
                         files |-> fs, dir |-> dirNow]
  IN IF fault = "fetch" THEN raised(dir)
     ELSE IF fault = "read" THEN raised(dir)
     ELSE IF d.kind # "write"
     THEN [thrown |-> FALSE, result |-> d.result, files |-> fs, dir |-> dir]
     ELSE IF fault = "mkdir" THEN raised(dir)
     ELSE IF fault = "write" THEN raised(TRUE)
     ELSE [thrown |-> FALSE, result |-> d.result,
           files |-> [fs EXCEPT ![filename] =
                        buildMarkdownContent(d.data, cfg.anchors)],
           dir |-> TRUE]

\* no catch block
Catch_Rethrow(issueId, out) == out

\* catch (error) { return { success: false, issueId, ... } }
Catch(issueId, out) ==
  IF out.thrown
  THEN [out EXCEPT !.thrown = FALSE, !.result = FailedResult(issueId)]
  ELSE out

syncIssue(issueId, cfg, dryRun, fault, rem, fs, dir) ==
  Catch(issueId, TryBody(issueId, cfg, dryRun, fault, rem, fs, dir))

\* ------------------------------------------------------------------ state
VARIABLES
  remote,     \* the tracker: issue id -> subject, description, updated_on, journals
  files,      \* the output directory: filename -> file
  dirExists,  \* whether the output directory exists
  config,     \* redmine.config.yaml: comments.anchors and filename.pattern
  last,       \* the outcome of the latest syncIssue call
  run,        \* the syncProject run: phase, options, SyncProjectResult
  task,       \* the syncIssue invocations of the run, one per issue
  input,      \* the argument handed to a function applied on its own
  output      \* what that function returned

projVars == <<run, task>>
pureVars == <<input, output>>
vars == <<remote, files, dirExists, config, last, run, task, input, output>>

NoResult ==
  [success |-> TRUE, issueId |-> 0, filename |-> NoName,
   action |-> "none", message |-> "none"]

\* no function is being applied on its own
NoInput == <<>>
NoOutput == <<>>

\* no result is waiting to be reported
Idle == [thrown |-> FALSE, result |-> NoResult]

NoDecision == [kind |-> "none", data |-> EmptyDoc, result |-> NoResult]

\* an invocation that has not been made
NoTask == [pc |-> "none", filename |-> NoName, d |-> NoDecision,
           out |-> NoResult]

\* const result: SyncProjectResult = { success: true, totalIssues: 0, ... }
NewResult ==
  [success |-> TRUE, totalIssues |-> 0, processed |-> 0, created |-> 0,
   updated |-> 0, skipped |-> 0, failed |-> 0, errors |-> <<>>]

\* no page request has been made
NoPages == [p \in 1..MaxPages |-> "none"]

NoRun == [phase |-> "idle", dryRun |-> FALSE, runs |-> 0, result |-> NewResult,
          pages |-> NoPages]

\* the description of an issue as of an update: every update of the issue
\* itself leaves a text of its own
DescriptionAt(time) == <<"d" \o ToString(time)>>

Init ==
  /\ remote = [i \in Issues |->
                 [subject |-> "Fix bug", description |-> DescriptionAt(1),
                  updated_on |-> 1, journals |-> <<>>]]
  /\ files = [p \in Paths |-> NoFile]
  /\ dirExists = FALSE
  /\ config \in [anchors : {DefaultAnchors, CustomAnchors},
                 pattern : {DefaultPattern, SlugPattern}]
  /\ last = Idle
  /\ run = NoRun
  /\ task = [i \in Issues |-> NoTask]
  /\ input = NoInput
  /\ output = NoOutput

\* ------------------------------------------------------------ environment
\* the tracker's clock: the latest updated_on of any issue
Clock ==
  CHOOSE t \in {remote[i].updated_on : i \in Issues} :
    \A i \in Issues : remote[i].updated_on <= t

\* journal ids are assigned tracker-wide, so an issue's ids grow with gaps
JournalCount ==
  LET RECURSIVE Sum(_)
      Sum(S) == IF S = {} THEN 0
                ELSE LET i == CHOOSE x \in S : TRUE
                     IN Len(remote[i].journals) + Sum(S \ {i})
  IN Sum(Issues)

\* a tracker user edits the issue: updated_on advances, the description is
\* a new text and the subject may change
RemoteEdit(i, subject) ==
  /\ last = Idle
  /\ Clock < MaxTime
  /\ remote' = [remote EXCEPT ![i].updated_on = Clock + 1,
                              ![i].description = DescriptionAt(Clock + 1),
                              ![i].subject = subject]
  /\ UNCHANGED <<files, dirExists, config, last, projVars, pureVars>>

\* a journal entry is added, with a note or change-only; touch is whether
\* the entry comes with an update of the issue itself
RemoteComment(i, notes, touch) ==
  /\ last = Idle
  /\ JournalCount < MaxJournals
  /\ touch => Clock < MaxTime
  /\ remote' = [remote EXCEPT
                  ![i].journals =
                    Append(@, [id |-> JournalCount + 1, notes |-> notes]),
                  ![i].updated_on = IF touch THEN Clock + 1 ELSE @,
                  ![i].description =
                    IF touch THEN DescriptionAt(Clock + 1) ELSE @]
  /\ UNCHANGED <<files, dirExists, config, last, projVars, pureVars>>

\* the user adds a line of their own at the end of the text between the
\* anchors of a synced file
ManualEdit(p) ==
  LET rest == files[p].rest
      s == IndexOf(rest, "S")
      e == IndexOf(rest, "E")
  IN /\ last = Idle
     /\ files[p].exists
     /\ s > 0 /\ e > s
     /\ IndexOf(rest, "m") = 0
     /\ files' = [files EXCEPT ![p].rest =
                    SubSeq(rest, 1, e - 1) \o <<"m", "\n">>
                    \o SubSeq(rest, e, Len(rest))]
     /\ UNCHANGED <<remote, dirExists, config, last, projVars, pureVars>>

\* ------------------------------------------------------------- operations
\* `redmine sync issue`: one call of syncIssue, run to completion before
\* anything else happens; include is whether defaults.include of the
\* call's configuration has 'journals'
SyncIssue(i, include, dryRun, fault) ==
  LET cfg == [include |-> include, anchors |-> config.anchors,
              pattern |-> config.pattern]
  IN /\ last = Idle
     /\ \E out \in {syncIssue(i, cfg, dryRun, fault, remote, files, dirExists)} :
          /\ files' = out.files
          /\ dirExists' = out.dir
          /\ last' = [thrown |-> out.thrown, result |-> out.result]
     /\ UNCHANGED <<remote, config, projVars, pureVars>>

\* the command prints the result it was given and the process ends
Report ==
  /\ last # Idle
  /\ last' = Idle
  /\ UNCHANGED <<remote, files, dirExists, config, projVars, pureVars>>

Environment ==
  \/ \E i \in Edited, subject \in Subjects : RemoteEdit(i, subject)
  \/ \E i \in Edited, notes \in {<<>>, <<"n">>}, touch \in BOOLEAN :
       RemoteComment(i, notes, touch)
  \/ \E p \in Paths : ManualEdit(p)

Next ==
  \/ Environment
  \/ \E i \in Issues, include \in BOOLEAN, dryRun \in BOOLEAN, fault \in Faults :
       SyncIssue(i, include, dryRun, fault)
  \/ Report

Spec == Init /\ [][Next]_vars

\* a run of calls under one fixed configuration that includes journals, in
\* which no I/O fails
NextFixed ==
  \/ Environment
  \/ \E i \in Issues, dryRun \in BOOLEAN : SyncIssue(i, TRUE, dryRun, "none")
  \/ Report

SpecFixed == Init /\ [][NextFixed]_vars

\* ----------------------------------------------------------- sync-project
\* syncProject starts: the result record is built and
\* getIssuesConcurrently sends its first request, for the total count
StartProject(dryRun) ==
  /\ run.phase \in {"idle", "returned"}
  /\ run.runs < MaxRuns
  /\ run' = [phase |-> "listing", dryRun |-> dryRun, runs |-> run.runs + 1,
             result |-> NewResult, pages |-> NoPages]
  /\ task' = [i \in Issues |-> NoTask]
  /\ UNCHANGED <<remote, files, dirExists, config, last, pureVars>>

\* every page handed to the limiter at once
Dispatch_All(totalPages) ==
  [p \in 1..MaxPages |-> IF p <= totalPages THEN "inflight" ELSE "none"]

\* this.concurrencyLimit(...) called for every page in order: the limiter
\* starts the first defaults.concurrency requests and queues the others
Dispatch(totalPages) ==
  [p \in 1..MaxPages |->
     IF p > totalPages THEN "none"
     ELSE IF p <= Concurrency THEN "inflight" ELSE "queued"]

\* the limiter after a request settles: the oldest queued request starts
StartNext(pages) ==
  IF \E p \in 1..MaxPages : pages[p] = "queued"
  THEN LET next == CHOOSE p \in 1..MaxPages :
                     /\ pages[p] = "queued"
                     /\ \A q \in 1..MaxPages : pages[q] = "queued" => p <= q
       IN [pages EXCEPT ![next] = "inflight"]
  ELSE pages

\* the first response arrives with total_count: no page means an empty
\* list, which ends the run; otherwise one request per page goes to the
\* limiter
CountArrives(totalPages) ==
  /\ run.phase = "listing"
  /\ IF totalPages = 0
     THEN run' = [run EXCEPT !.phase = "returned"]
     ELSE run' = [run EXCEPT !.phase = "paging",
                             !.pages = Dispatch(totalPages)]
  /\ UNCHANGED <<remote, files, dirExists, config, last, task, pureVars>>

\* the response of a page request arrives and the limiter frees its slot
PageArrives(p) ==
  /\ run.phase = "paging"
  /\ run.pages[p] = "inflight"
  /\ run' = [run EXCEPT !.pages = StartNext([run.pages EXCEPT ![p] = "done"])]
  /\ UNCHANGED <<remote, files, dirExists, config, last, task, pureVars>>

\* `result.totalIssues = issues.length` left out
ListIssues_TotalNotSet(batch) ==
  /\ run.phase = "paging"
  /\ \A p \in 1..MaxPages : run.pages[p] \in {"none", "done"}
  /\ IF batch = {}
     THEN /\ run' = [run EXCEPT !.phase = "returned", !.pages = NoPages]
          /\ UNCHANGED task
     ELSE /\ run' = [run EXCEPT !.phase = "syncing", !.pages = NoPages]
          /\ task' = [i \in Issues |->
                        IF i \in batch THEN [NoTask EXCEPT !.pc = "fetch"]
                        ELSE NoTask]
  /\ UNCHANGED <<remote, files, dirExists, config, last, pureVars>>

\* Promise.all(pagePromises) resolves and getIssuesConcurrently returns the
\* issues of the pages: an empty list ends the run, otherwise syncIssue is
\* invoked for every issue of the list and each invocation runs up to its
\* first await, the fetch
ListIssues(batch) ==
  /\ run.phase = "paging"
  /\ \A p \in 1..MaxPages : run.pages[p] \in {"none", "done"}
  /\ IF batch = {}
     THEN /\ run' = [run EXCEPT !.phase = "returned", !.pages = NoPages]
          /\ UNCHANGED task
     ELSE /\ run' = [run EXCEPT !.phase = "syncing", !.pages = NoPages,
                                !.result.totalIssues = Cardinality(batch)]
          /\ task' = [i \in Issues |->
                        IF i \in batch THEN [NoTask EXCEPT !.pc = "fetch"]
                        ELSE NoTask]
  /\ UNCHANGED <<remote, files, dirExists, config, last, pureVars>>

\* the catch block without `result.success = false`
ListFails_SuccessKept ==
  /\ \/ run.phase = "listing"
     \/ run.phase = "paging" /\ \E p \in 1..MaxPages : run.pages[p] = "inflight"
  /\ run' = [run EXCEPT
               !.phase = "returned",
               !.pages = NoPages,
               !.result.errors =
                 Append(@, [issueId |-> 0, error |-> "Failed to fetch issues"])]
  /\ UNCHANGED <<remote, files, dirExists, config, last, task, pureVars>>

\* a request of getIssuesConcurrently fails for good, the first one or a
\* page's: getIssuesConcurrently throws, the catch block of syncProject
\* returns the result and the command ends
ListFails ==
  /\ \/ run.phase = "listing"
     \/ run.phase = "paging" /\ \E p \in 1..MaxPages : run.pages[p] = "inflight"
  /\ run' = [run EXCEPT
               !.phase = "returned",
               !.pages = NoPages,
               !.result.success = FALSE,
               !.result.errors =
                 Append(@, [issueId |-> 0, error |-> "Failed to fetch issues"])]
  /\ UNCHANGED <<remote, files, dirExists, config, last, task, pureVars>>

\* the failed invocation started again
TaskFails_Retry(i) ==
  /\ task' = [task EXCEPT ![i].pc = "fetch"]

\* an invocation's exception reaches the catch block of syncIssue
TaskFails(i) ==
  /\ task' = [task EXCEPT ![i].pc = "return", ![i].out = FailedResult(i)]

\* the response of client.getIssue arrives; the invocation computes the
\* filename and starts reading the local file
TaskFetch(i, ok) ==
  /\ run.phase = "syncing"
  /\ task[i].pc = "fetch"
  /\ IF ok
     THEN LET issue == getIssue(i, TRUE, remote)
          IN task' = [task EXCEPT
                        ![i].pc = "read",
                        ![i].filename =
                          generateFilename(issue.id, issue.subject,
                                           config.pattern)]
     ELSE TaskFails(i)
  /\ UNCHANGED <<remote, files, dirExists, config, last, run, pureVars>>

\* readFile completes; the invocation decides and either returns or starts
\* writeMarkdownFile with the directory creation
TaskRead(i, ok) ==
  /\ run.phase = "syncing"
  /\ task[i].pc = "read"
  /\ IF ok
     THEN LET d == Decide(i, getIssue(i, TRUE, remote),
                          readMarkdownFile(files[task[i].filename]),
                          [include |-> TRUE, anchors |-> config.anchors,
                           pattern |-> config.pattern],
                          run.dryRun)
          IN task' = [task EXCEPT
                        ![i].pc = IF d.kind = "write" THEN "mkdir" ELSE "return",
                        ![i].d = d,
                        ![i].out = IF d.kind = "write" THEN @ ELSE d.result]
     ELSE TaskFails(i)
  /\ UNCHANGED <<remote, files, dirExists, config, last, run, pureVars>>

\* mkdir completes; writeFile starts
TaskMkdir(i, ok) ==
  /\ run.phase = "syncing"
  /\ task[i].pc = "mkdir"
  /\ IF ok
     THEN /\ task' = [task EXCEPT ![i].pc = "write"]
          /\ dirExists' = TRUE
     ELSE /\ TaskFails(i)
          /\ UNCHANGED dirExists
  /\ UNCHANGED <<remote, files, config, last, run, pureVars>>

\* writeFile completes; syncIssue returns the action as performed
TaskWrite(i, ok) ==
  /\ run.phase = "syncing"
  /\ task[i].pc = "write"
  /\ IF ok
     THEN /\ files' = [files EXCEPT ![task[i].filename] =
                         buildMarkdownContent(task[i].d.data, config.anchors)]
          /\ task' = [task EXCEPT ![i].pc = "return",
                                  ![i].out = task[i].d.result]
     ELSE /\ TaskFails(i)
          /\ UNCHANGED files
  /\ UNCHANGED <<remote, dirExists, config, last, run, pureVars>>

\* the result counted by its action alone
TaskCount_ByAction(i) ==
  /\ run.phase = "syncing"
  /\ task[i].pc = "return"
  /\ task' = [task EXCEPT ![i].pc = "counted"]
  /\ LET r == task[i].out
         counted ==
           [run.result EXCEPT
              !.processed = @ + 1,
              !.created = IF r.action = "created" THEN @ + 1 ELSE @,
              !.updated = IF r.action = "updated" THEN @ + 1 ELSE @,
              !.skipped = IF r.action = "skipped" THEN @ + 1 ELSE @]
     IN run' = [run EXCEPT !.result = counted]
  /\ UNCHANGED <<remote, files, dirExists, config, last, pureVars>>

\* the rest of the map callback after `await syncIssue(...)`
TaskCount(i) ==
  /\ run.phase = "syncing"
  /\ task[i].pc = "return"
  /\ task' = [task EXCEPT ![i].pc = "counted"]
  /\ LET r == task[i].out
         counted ==
           [run.result EXCEPT
              !.processed = @ + 1,
              !.created = IF r.success /\ r.action = "created" THEN @ + 1 ELSE @,
              !.updated = IF r.success /\ r.action = "updated" THEN @ + 1 ELSE @,
              !.skipped = IF r.success /\ r.action = "skipped" THEN @ + 1 ELSE @,
              !.failed = IF r.success THEN @ ELSE @ + 1,
              !.errors = IF r.success THEN @
                         ELSE Append(@, [issueId |-> r.issueId,
                                         error |-> r.message])]
     IN run' = [run EXCEPT !.result = counted]
  /\ UNCHANGED <<remote, files, dirExists, config, last, pureVars>>

\* Promise.all(syncPromises) resolves; success is computed and returned
FinishProject ==
  /\ run.phase = "syncing"
  /\ \A i \in Issues : task[i].pc \in {"none", "counted"}
  /\ run' = [run EXCEPT !.phase = "returned",
                        !.result.success = (run.result.failed = 0)]
  /\ UNCHANGED <<remote, files, dirExists, config, last, task, pureVars>>

NextProject ==
  \/ \E dryRun \in BOOLEAN : StartProject(dryRun)
  \/ \E totalPages \in 0..MaxPages : CountArrives(totalPages)
  \/ \E p \in 1..MaxPages : PageArrives(p)
  \/ \E batch \in SUBSET Issues : ListIssues(batch)
  \/ ListFails
  \/ \E i \in Issues, ok \in BOOLEAN : TaskFetch(i, ok)
  \/ \E i \in Issues, ok \in BOOLEAN : TaskRead(i, ok)
  \/ \E i \in Issues, ok \in BOOLEAN : TaskMkdir(i, ok)
  \/ \E i \in Issues, ok \in BOOLEAN : TaskWrite(i, ok)
  \/ \E i \in Issues : TaskCount(i)
  \/ FinishProject

SpecProject == Init /\ [][NextProject]_vars

\* every awaited operation of a run settles and the continuation waiting
\* for it is run by the event loop
Settle ==
  \/ \E p \in 1..MaxPages : PageArrives(p)
  \/ \E i \in Issues, ok \in BOOLEAN : TaskFetch(i, ok)
  \/ \E i \in Issues, ok \in BOOLEAN : TaskRead(i, ok)
  \/ \E i \in Issues, ok \in BOOLEAN : TaskMkdir(i, ok)
  \/ \E i \in Issues, ok \in BOOLEAN : TaskWrite(i, ok)
  \/ \E i \in Issues : TaskCount(i)
  \/ FinishProject

SpecProjectLive == Init /\ [][NextProject]_vars /\ WF_vars(Settle)

\* ----------------------------------------------------------------- claims
\* the configuration a call is given
Cfg(include) ==
  [include |-> include, anchors |-> config.anchors, pattern |-> config.pattern]

\* the file a call for issue i reads and writes
TargetOf(i) == generateFilename(i, remote[i].subject, config.pattern)

\* the text between the configured anchors of a file, <<>> when there is none
BlockOf(file) ==
  LET s == IndexOf(file.rest, config.anchors.start)
      e == IndexOf(file.rest, config.anchors.end)
  IN IF s > 0 /\ e > s + 1 THEN Trim(SubSeq(file.rest, s + 1, e - 1)) ELSE <<>>

IsPrefix(a, b) == Len(a) <= Len(b) /\ SubSeq(b, 1, Len(a)) = a

Occurrences(text, tok) == Cardinality({k \in 1..Len(text) : text[k] = tok})

\* the outcome of a call syncIssue(i, ...) made in the current state
Call(i, include, dryRun, fault) ==
  syncIssue(i, Cfg(include), dryRun, fault, remote, files, dirExists)

\* C1: identity guard.  Every call that fetched its issue and read a
\* target file recording an id other than the fetched issue's returns
\* success=false, action 'skipped', and leaves every file as it was; and no
\* step ever changes an id a file records.
C1_IdentityGuard ==
  [][/\ (/\ last = Idle
         /\ last' # Idle
         /\ last'.result.filename # NoName
         /\ files[last'.result.filename].fm.id # Null
         /\ files[last'.result.filename].fm.id # last'.result.issueId)
        => /\ last'.result.success = FALSE
           /\ last'.result.action = "skipped"
           /\ files' = files
     /\ files' # files
        => \A p \in Paths :
             files[p].fm.id # Null => files'[p].fm.id = files[p].fm.id]_vars

\* a call has just been refused because its file belongs to another issue
C1_Witness ==
  /\ last.result.success = FALSE
  /\ last.result.filename # NoName
  /\ files[last.result.filename].exists
  /\ files[last.result.filename].fm.id # last.result.issueId

\* C2: idempotence.  From every reachable state, after a successful
\* non-dry-run call for an issue, a second call for the same issue under
\* the same configuration and remote snapshot returns success=true, action
\* 'skipped', and writes nothing.
C2_Idempotent ==
  last = Idle => \A i \in Issues, inc \in BOOLEAN :
    \A first \in {Call(i, inc, FALSE, "none")} :
      first.result.success
      => \A second \in {syncIssue(i, Cfg(inc), FALSE, "none",
                                  remote, first.files, first.dir)} :
           /\ ~second.thrown
           /\ second.result.success
           /\ second.result.action = "skipped"
           /\ second.result.issueId = i
           /\ second.files = first.files
           /\ second.dir = first.dir

\* an issue with a change-only entry and a note has just been written
C2_Witness ==
  /\ last.result.success
  /\ last.result.action = "updated"
  /\ last.result.message = "done"
  /\ \E k \in 1..Len(remote[last.result.issueId].journals) :
       remote[last.result.issueId].journals[k].notes = <<>>
  /\ \E k \in 1..Len(remote[last.result.issueId].journals) :
       remote[last.result.issueId].journals[k].notes # <<>>

\* C3: the lastJournalId a file records never decreases and is never
\* dropped.
C3_MarkerMonotonic ==
  [][\A p \in Paths :
       files[p].fm.lastJournalId # Null
       => files'[p].fm.lastJournalId >= files[p].fm.lastJournalId]_vars

\* C4: whenever a file with a non-empty comments block changes, the new
\* block begins with the previous block's text.
C4_AppendOnly ==
  [][\A p \in Paths :
       (files'[p] # files[p] /\ BlockOf(files[p]) # <<>>)
       => IsPrefix(BlockOf(files[p]), BlockOf(files'[p]))]_vars

\* C4 with the default anchors only
C4_AppendOnlyDefaultAnchors ==
  [][\A p \in Paths :
       (/\ config.anchors = DefaultAnchors
        /\ files'[p] # files[p]
        /\ BlockOf(files[p]) # <<>>)
       => IsPrefix(BlockOf(files[p]), BlockOf(files'[p]))]_vars

\* C5: under a fixed configuration that includes journals, right after a
\* successful non-dry-run call for an issue every remote entry of the
\* issue with a non-empty note is rendered exactly once in the file's
\* comments block.
C5_ExactlyOnce ==
  \A i \in Issues :
    (/\ last.result.issueId = i
     /\ last.result.success
     /\ last.result.message \in {"done", "up to date"})
    => \A k \in 1..Len(remote[i].journals) :
         remote[i].journals[k].notes # <<>>
         => Occurrences(BlockOf(files[TargetOf(i)]),
                        Heading(remote[i].journals[k])) = 1

\* C5 with the default anchors only
C5_ExactlyOnceDefaultAnchors ==
  config.anchors = DefaultAnchors => C5_ExactlyOnce

\* C7: dry run.  In every reachable state a dry-run call changes no file
\* and creates no directory, whichever step fails, and when nothing fails
\* it reports the action the non-dry-run call reports from the same state.
C7_DryRun ==
  last = Idle => \A i \in Issues, inc \in BOOLEAN :
    /\ \A fault \in Faults \ {"none"} :
         \A dry \in {Call(i, inc, TRUE, fault)} :
           dry.files = files /\ dry.dir = dirExists
    /\ \A dry \in {Call(i, inc, TRUE, "none")} :
         /\ dry.files = files /\ dry.dir = dirExists
         /\ dry.result.action = Call(i, inc, FALSE, "none").result.action

\* a dry run has just reported that it would create a file that is not there
C7_Witness ==
  /\ last.result.message = "would"
  /\ last.result.action = "created"
  /\ ~files[last.result.filename].exists
  /\ ~dirExists

\* C8: syncIssue never throws.  In every reachable state, a call in which
\* the fetch, the read of the local file, the directory creation or the
\* write fails returns success=false, action 'skipped' and the requested
\* issue id; no call lets an exception out.
C8_NeverThrows ==
  /\ ~last.thrown
  /\ last = Idle =>
     \A i \in Issues, inc \in BOOLEAN, dry \in BOOLEAN :
       \A none \in {Call(i, inc, dry, "none")} :
         /\ ~none.thrown
         /\ \A fault \in Faults \ {"none"} :
              \A out \in {Call(i, inc, dry, fault)} :
                LET reached ==
                      \/ fault \in {"fetch", "read"}
                      \/ none.result.message = "done"
                IN /\ ~out.thrown
                   /\ reached => /\ out.result.success = FALSE
                                 /\ out.result.action = "skipped"
                                 /\ out.result.issueId = i

\* the first write has just failed after the directory was made
C8_Witness ==
  /\ last.result.success = FALSE
  /\ last.result.filename = NoName
  /\ last.result.issueId \in Issues
  /\ dirExists
  /\ \A p \in Paths : ~files[p].exists

\* C9: change detection.  In every reachable state, a call with no identity
\* conflict returns 'skipped' and writes nothing exactly when the file
\* records an updated_on that the remote updated_on is not later than and
\* no fetched entry is newer than the recorded marker (with no marker: no
\* entry was fetched); otherwise it reports created/updated and, unless it
\* is a dry run, writes the file.
C9_ChangeDetection ==
  last = Idle => \A i \in Issues, inc \in BOOLEAN, dry \in BOOLEAN :
    \A out \in {Call(i, inc, dry, "none")} :
    LET local == files[TargetOf(i)].fm
        fetched == IF inc THEN remote[i].journals ELSE <<>>
        a == local.updated_on # Null /\ remote[i].updated_on <= local.updated_on
        b == IF local.lastJournalId # Null
             THEN \A k \in 1..Len(fetched) : fetched[k].id <= local.lastJournalId
             ELSE fetched = <<>>
        conflict == local.id # Null /\ local.id # i
    IN ~conflict
       => IF a /\ b
          THEN /\ out.result.success
               /\ out.result.action = "skipped"
               /\ out.files = files
          ELSE /\ out.result.success
               /\ out.result.action \in {"created", "updated"}
               /\ dry => out.files = files
               /\ ~dry => /\ out.files[TargetOf(i)].exists
                          /\ out.files[TargetOf(i)].fm.updated_on
                               = remote[i].updated_on

\* a file without a marker has just been updated only because the remote
\* has entries
C9_Witness ==
  /\ last.result.success
  /\ last.result.action = "updated"
  /\ last.result.message = "done"
  /\ \E k \in 1..Len(remote[last.result.issueId].journals) :
       remote[last.result.issueId].journals[k].notes = <<>>
  /\ files[last.result.filename].fm.lastJournalId # Null
  /\ remote[last.result.issueId].updated_on = 1

\* C10: lifecycle.  A successful non-dry-run call reports 'created' for an
\* issue only when no file recorded that issue before the call.
C10_CreatedOnce ==
  [][\A i \in Issues :
       (/\ last'.result.issueId = i
        /\ last'.result.success
        /\ last'.result.message = "done"
        /\ last'.result.action = "created")
       => ~\E p \in Paths : files[p].fm.id = i]_vars

\* C6: when two invocations of a project run resolve to the same path, at
\* most one of them writes the file and the other returns the identity
\* conflict.
C6_NoSilentOverwrite ==
  \A i \in Issues, j \in Issues :
    (/\ i # j
     /\ task[i].pc \in {"return", "counted"}
     /\ task[j].pc \in {"return", "counted"}
     /\ task[i].filename # NoName
     /\ task[i].filename = task[j].filename
     /\ task[i].out.message = "done")
    => /\ task[j].out.success = FALSE
       /\ task[j].out.message \in {"conflict", "failed"}

\* the ids of the entries rendered in the comments block of a file
RenderedIds(file) ==
  {n \in 1..MaxJournals :
     Occurrences(BlockOf(file), Heading([id |-> n, notes |-> <<>>])) > 0}

\* C11 as stated: after a call that fetched entries and wrote the file, the
\* recorded lastJournalId equals the largest id rendered in the comments
\* block.
C11_MarkerIsMaxRendered ==
  last = Idle => \A i \in Issues :
    remote[i].journals # <<>>
    => \A out \in {Call(i, TRUE, FALSE, "none")} :
         LET file == out.files[TargetOf(i)]
         IN (out.result.message = "done" /\ RenderedIds(file) # {})
            => \A n \in RenderedIds(file) :
                 (\A m \in RenderedIds(file) : m <= n)
                 => file.fm.lastJournalId = n

\* C11: after a call that fetched entries and wrote the file, the recorded
\* lastJournalId equals the largest id among the fetched entries, rendered
\* or not, and no rendered entry has a larger id.
C11_MarkerIsMaxFetched ==
  last = Idle => \A i \in Issues :
    remote[i].journals # <<>>
    => \A out \in {Call(i, TRUE, FALSE, "none")} :
         LET file == out.files[TargetOf(i)]
         IN out.result.message = "done"
            => /\ file.fm.lastJournalId # Null
               /\ \A k \in 1..Len(remote[i].journals) :
                    remote[i].journals[k].id <= file.fm.lastJournalId
               /\ \E k \in 1..Len(remote[i].journals) :
                    remote[i].journals[k].id = file.fm.lastJournalId
               /\ \A n \in RenderedIds(file) : n <= file.fm.lastJournalId

\* a file has just been written whose marker is the id of a change-only
\* entry, larger than the id of the one entry rendered
C11_Witness ==
  /\ last.result.message = "done"
  /\ RenderedIds(files[last.result.filename]) # {}
  /\ \A n \in RenderedIds(files[last.result.filename]) :
       n < files[last.result.filename].fm.lastJournalId
  /\ \E k \in 1..Len(remote[last.result.issueId].journals) :
       /\ remote[last.result.issueId].journals[k].id
            = files[last.result.filename].fm.lastJournalId
       /\ remote[last.result.issueId].journals[k].notes = <<>>

\* C12: when every newly selected entry has an empty note, a call that
\* writes the file leaves the comments text as it was read, with no
\* separator appended.
C12_SilentMergeNoOp ==
  last = Idle => \A i \in Issues :
    LET existing == readMarkdownFile(files[TargetOf(i)])
        selected == extractNewJournals(remote[i].journals,
                                       extractLastJournalId(existing.frontmatter))
    IN (selected # <<>> /\ mapJournalsToComments(selected) = <<>>)
       => \A out \in {Call(i, TRUE, FALSE, "none")} :
            out.result.message = "done"
            => readMarkdownFile(out.files[TargetOf(i)]).comments
                 = existing.comments

\* C13: when the file records a marker, every remote entry above the marker
\* has an empty note and the remote updated_on is not later than the
\* recorded one, a call returns 'skipped' and writes nothing.
C13_SilentUpdateSkipped ==
  last = Idle => \A i \in Issues :
    LET local == files[TargetOf(i)].fm
        above == {k \in 1..Len(remote[i].journals) :
                    remote[i].journals[k].id > local.lastJournalId}
    IN (/\ local.id = i
        /\ local.lastJournalId # Null
        /\ above # {}
        /\ \A k \in above : remote[i].journals[k].notes = <<>>
        /\ remote[i].updated_on <= local.updated_on)
       => \A out \in {Call(i, TRUE, FALSE, "none")} :
            /\ out.result.action = "skipped"
            /\ out.files = files

\* C14: whenever syncProject has returned, success is true exactly when the
\* failed count is zero.
C14_SuccessIffNoFailure ==
  run.phase = "returned"
  => (run.result.success <=> run.result.failed = 0)

\* C14 for the runs whose issue list was fetched; in every run success is
\* true exactly when no error was recorded
C14_SuccessIffNoError ==
  run.phase = "returned"
  => /\ run.result.success <=> run.result.errors = <<>>
     /\ run.result.success => run.result.failed = 0
     /\ (\A k \in 1..Len(run.result.errors) :
            run.result.errors[k].issueId # 0)
        => (run.result.success <=> run.result.failed = 0)

\* C15: when the fetch of the issue list fails, syncProject returns
\* success=false with exactly one error entry, of issue id 0, and
\* processed = created = updated = skipped = 0; no syncIssue invocation has
\* been made and no file or directory has changed.
C15_ListFailure ==
  [][(/\ run.phase \in {"listing", "paging"}
      /\ run'.phase = "returned"
      /\ (run'.result.errors # <<>> \/ ~run'.result.success))
     => /\ run'.result.success = FALSE
        /\ Len(run'.result.errors) = 1
        /\ run'.result.errors[1].issueId = 0
        /\ run'.result.processed = 0
        /\ run'.result.created = 0
        /\ run'.result.updated = 0
        /\ run'.result.skipped = 0
        /\ \A i \in Issues : task'[i] = NoTask
        /\ files' = files
        /\ dirExists' = dirExists]_vars

\* a second run has returned the list failure; the files of the first run
\* are there
C15_Witness ==
  /\ run.phase = "returned"
  /\ run.runs = 2
  /\ run.result.errors = <<[issueId |-> 0, error |-> "Failed to fetch issues"]>>
  /\ \E p \in Paths : files[p].exists

\* C16: in a run over the fetched issues, syncIssue is invoked once per
\* issue and an invocation that has started is never started again;
\* processed counts the invocations that have returned; and whichever
\* invocations fail, the run eventually returns with processed equal to the
\* number of fetched issues.
C16_IsolationAndCompletion ==
  /\ [][\A i \in Issues :
          (task'[i].pc = "fetch" /\ task[i].pc # "fetch")
          => (task[i].pc = "none" /\ run.phase = "paging")]_vars
  /\ [](run.result.processed
          = Cardinality({i \in Issues : task[i].pc = "counted"}))
  /\ (run.phase = "syncing")
       ~> (/\ run.phase = "returned"
           /\ run.result.processed = run.result.totalIssues
           /\ \A i \in Issues : task[i].pc \in {"none", "counted"})

\* a run over two issues has returned: one invocation failed, the other
\* created its file
C16_Witness ==
  /\ run.phase = "returned"
  /\ run.result.totalIssues = 2
  /\ run.result.processed = 2
  /\ run.result.failed = 1
  /\ run.result.created = 1

\* C17: during a run, the number of syncIssue invocations in progress
\* never exceeds the configured concurrency.
C17_BoundedInvocations ==
  Cardinality({i \in Issues : task[i].pc \in {"fetch", "read", "mkdir", "write"}})
    <= Concurrency

\* C18: during getIssuesConcurrently the number of page requests in flight
\* never exceeds defaults.concurrency, and every queued page request is
\* eventually started, unless a request fails and the run returns.
C18_PageLimiter ==
  /\ [](Cardinality({p \in 1..MaxPages : run.pages[p] = "inflight"})
          <= Concurrency)
  /\ \A p \in 1..MaxPages :
       (run.pages[p] = "queued")
         ~> (run.pages[p] = "inflight" \/ run.phase = "returned")

\* the first page has arrived, the second has taken its slot and the third
\* is still queued
C18_Witness ==
  /\ run.phase = "paging"
  /\ run.pages[1] = "done"
  /\ run.pages[2] = "inflight"
  /\ run.pages[3] = "queued"

\* C19: during a run, the number of per-issue requests in flight never
\* exceeds defaults.concurrency.
C19_BoundedIssueRequests ==
  Cardinality({i \in Issues : task[i].pc = "fetch"}) <= Concurrency

\* C20: in a run, an invocation that finds its target file recording
\* another issue's id returns without writing anything; its result adds one
\* to failed and nothing to skipped, adds an errors entry with the issue's
\* id, and the run returns success=false.
C20_ConflictIsFailure ==
  /\ [][\A i \in Issues :
          /\ (task'[i].out.message = "conflict" /\ task[i].pc = "read")
             => /\ task'[i].pc = "return"
                /\ task'[i].out.success = FALSE
                /\ task'[i].out.issueId = i
                /\ files' = files
          /\ (task[i].out.message = "conflict" /\ task[i].pc = "return"
                 /\ task'[i].pc = "counted")
             => /\ run'.result.failed = run.result.failed + 1
                /\ run'.result.skipped = run.result.skipped
                /\ run'.result.errors
                     = Append(run.result.errors,
                              [issueId |-> i, error |-> "conflict"])
          /\ task[i].out.message = "conflict"
             => task'[i].pc \in {"return", "counted", "none"}]_vars
  /\ []((/\ run.phase = "returned"
          /\ \E i \in Issues : task[i].out.message = "conflict")
         => run.result.success = FALSE)

\* a run has returned in which issue 1 created the file and issue 2, mapped
\* to the same file, was refused
C20_Witness ==
  /\ run.phase = "returned"
  /\ task[2].out.message = "conflict"
  /\ task[1].out.action = "created"
  /\ files[task[2].filename].fm.id = 1
  /\ run.result.failed = 1
  /\ run.result.created = 1
  /\ run.result.skipped = 0

\* the text of a written file before its comments block: all of it when
\* the file has no block
BeforeBlock(file) ==
  LET s == IndexOf(file.rest, config.anchors.start)
  IN IF s = 0 THEN file.rest ELSE SubSeq(file.rest, 1, s - 1)

\* C21: every call that writes the file writes the frontmatter built from
\* the fetched snapshot alone (id, subject, updated_on, and the largest
\* fetched journal id or no marker) and the description as the content;
\* nothing of the previous frontmatter or of the previous text outside the
\* comments block is kept.
C21_WholesaleReplacement ==
  last = Idle => \A i \in Issues, inc \in BOOLEAN :
    \A out \in {Call(i, inc, FALSE, "none")} :
      LET file == out.files[TargetOf(i)]
          fetched == IF inc THEN remote[i].journals ELSE <<>>
      IN out.result.message = "done"
         => /\ file.fm.id = i
            /\ file.fm.subject = remote[i].subject
            /\ file.fm.updated_on = remote[i].updated_on
            /\ IF fetched = <<>>
               THEN file.fm.lastJournalId = Null
               ELSE /\ \E k \in 1..Len(fetched) :
                         fetched[k].id = file.fm.lastJournalId
                    /\ \A k \in 1..Len(fetched) :
                         fetched[k].id <= file.fm.lastJournalId
            /\ TrimEnd(BeforeBlock(file)) = <<"\n">> \o remote[i].description

\* a file whose comments block holds a manual edit has just been rewritten
\* for a later updated_on: the frontmatter is the new one, the edit is kept
C21_Witness ==
  /\ last.result.message = "done"
  /\ last.result.action = "updated"
  /\ files[last.result.filename].fm.updated_on = 2
  /\ TrimEnd(BeforeBlock(files[last.result.filename]))
       = <<"\n">> \o DescriptionAt(2)
  /\ Occurrences(BlockOf(files[last.result.filename]), "m") = 1

\* the document a call for issue i hands to writeMarkdownFile in the
\* current state, when it gets that far
Written(i, include) ==
  Decide(i, getIssue(i, include, remote),
         readMarkdownFile(files[TargetOf(i)]), Cfg(include), FALSE)

\* C22: with the default anchors, parsing the serialized form of every
\* document syncIssue writes returns the document's frontmatter, content
\* and comments.
C22_RoundTrip ==
  (last = Idle /\ config.anchors = DefaultAnchors)
  => \A i \in Issues, inc \in BOOLEAN :
       \A d \in {Written(i, inc)} :
         d.kind = "write"
         => \A parsed \in {parseMarkdownContent(
                               buildMarkdownContent(d.data, config.anchors))} :
              /\ parsed.frontmatter = d.data.frontmatter
              /\ parsed.content = d.data.content
              /\ parsed.comments = d.data.comments

\* C23: whatever the configured anchors, the comments block of every
\* document syncIssue writes is found as the existing comments when the
\* written file is parsed.
C23_ConfiguredAnchorsRecognised ==
  last = Idle => \A i \in Issues, inc \in BOOLEAN :
    \A d \in {Written(i, inc)} :
      (d.kind = "write" /\ Truthy(d.data.comments))
      => Truthy(parseMarkdownContent(
                  buildMarkdownContent(d.data, config.anchors)).comments)

\* C23 for the default anchors
C23_DefaultAnchorsRecognised ==
  config.anchors = DefaultAnchors => C23_ConfiguredAnchorsRecognised

\* ------------------------------------------- functions applied on their own
\* the engine at rest: no call made, no run, one configuration
AtRest ==
  /\ remote = [i \in Issues |->
                 [subject |-> "Fix bug", description |-> DescriptionAt(1),
                  updated_on |-> 1, journals |-> <<>>]]
  /\ dirExists = FALSE
  /\ config = [anchors |-> DefaultAnchors, pattern |-> DefaultPattern]
  /\ last = Idle
  /\ run = NoRun
  /\ task = [i \in Issues |-> NoTask]

engineVars == <<remote, files, dirExists, config, last, run, task>>

\* the pieces a body is made of: the two anchors, a word and a blank
BodyTokens == {"S", "E", "a", " "}

RECURSIVE SeqsUpTo(_, _)
SeqsUpTo(tokens, n) ==
  IF n = 0 THEN {<<>>}
  ELSE LET shorter == SeqsUpTo(tokens, n - 1)
       IN shorter \cup {Append(q, t) : q \in shorter, t \in tokens}

Bodies == SeqsUpTo(BodyTokens, MaxBody)

\* a front matter block with one key
SomeFM == [EmptyFM EXCEPT !.id = 1]

\* the text of a file: an optional front matter block and the body after it
InitParse ==
  /\ AtRest
  /\ files = [p \in Paths |-> NoFile]
  /\ input \in {<<[exists |-> TRUE, fm |-> fm, rest |-> body]>> :
                  fm \in {EmptyFM, SomeFM}, body \in Bodies}
  /\ output = NoOutput

\* parseMarkdownContent(content)
ParseMarkdown ==
  /\ input # NoInput
  /\ output = NoOutput
  /\ output' = <<parseMarkdownContent(input[1])>>
  /\ UNCHANGED <<engineVars, input>>

NextParse == ParseMarkdown

SpecParse == InitParse /\ [][NextParse]_vars

\* the file is not empty or whitespace-only and has been parsed
Parsed == output # NoOutput /\ ~(input[1].fm = EmptyFM /\ Trim(input[1].rest) = <<>>)

StartAt == IndexOf(input[1].rest, "S")
EndAt == IndexOf(input[1].rest, "E")

\* C24: when the body contains both anchors but the start anchor occurs at
\* or after the end anchor (the end anchor does not begin after the end of
\* the start anchor), parse returns comments absent and content equal to the
\* full body unmodified
C24_MisorderedAnchors ==
  (Parsed /\ StartAt > 0 /\ EndAt > 0 /\ StartAt + 1 >= EndAt)
  => /\ output[1].comments = None
     /\ output[1].content = input[1].rest

\* C24, the part the code keeps: comments are absent
C24_MisorderedNoComments ==
  (Parsed /\ StartAt > 0 /\ EndAt > 0 /\ StartAt + 1 >= EndAt)
  => output[1].comments = None

\* C25 as stated: a body that lacks an anchor is returned whole with no
\* comments; with both anchors in order, comments is the trimmed text
\* strictly between them and content is the body with the span from the
\* start anchor to the end anchor, both included, removed
C25_SpanRemoved ==
  Parsed =>
    LET body == input[1].rest
    IN /\ (StartAt = 0 \/ EndAt = 0)
          => /\ output[1].comments = None
             /\ output[1].content = body
       /\ (StartAt > 0 /\ EndAt > StartAt)
          => /\ output[1].comments = Some(Trim(SubSeq(body, StartAt + 1, EndAt - 1)))
             /\ output[1].content =
                  SubSeq(body, 1, StartAt - 1) \o SubSeq(body, EndAt + 1, Len(body))

\* C25 (amended): a body that lacks an anchor is returned whole with no
\* comments; with both anchors in order and text between them, comments is
\* the trimmed text between them and content is the text before the start
\* anchor followed by the trimmed text after the end anchor
C25_SpanRemovedTailTrimmed ==
  Parsed =>
    LET body == input[1].rest
    IN /\ (StartAt = 0 \/ EndAt = 0)
          => /\ output[1].comments = None
             /\ output[1].content = body
       /\ (StartAt > 0 /\ EndAt > StartAt + 1)
          => /\ output[1].comments = Some(Trim(SubSeq(body, StartAt + 1, EndAt - 1)))
             /\ output[1].content =
                  SubSeq(body, 1, StartAt - 1)
                  \o Trim(SubSeq(body, EndAt + 1, Len(body)))

\* a parsed body with text before the block, padded comments and a padded tail
C25_Witness ==
  /\ Parsed
  /\ StartAt > 1 /\ EndAt > StartAt + 1
  /\ output[1].comments # Some(SubSeq(input[1].rest, StartAt + 1, EndAt - 1))
  /\ Len(output[1].content) < StartAt - 1 + Len(input[1].rest) - EndAt

\* ------------------------------------------------ empty files on the disk
\* a file of no bytes, and one of blanks and line ends only
EmptyFile == [exists |-> TRUE, fm |-> EmptyFM, rest |-> <<>>]
BlankFile == [exists |-> TRUE, fm |-> EmptyFM, rest |-> <<" ", "\n">>]

IsBlank(file) == file.exists /\ file.fm = EmptyFM /\ Trim(file.rest) = <<>>

\* the file of issue 1 under the default pattern
FirstTarget == generateFilename(1, "Fix bug", DefaultPattern)

\* the output directory holds an empty or whitespace-only file where issue 1
\* will be written, and no file for any other issue
InitBlank ==
  /\ AtRest
  /\ \E blank \in {EmptyFile, BlankFile} :
       files = [p \in Paths |-> IF p = FirstTarget THEN blank ELSE NoFile]
  /\ input = NoInput
  /\ output = NoOutput

SpecBlank == InitBlank /\ [][Next]_vars

\* C26: a nonexistent file and an empty or whitespace-only file are read as
\* the same empty document, and a syncIssue call whose target is an empty or
\* whitespace-only file returns the result, and writes the file, that it
\* returns and writes when the target does not exist; a successful call is
\* 'created'
C26_BlankAsMissing ==
  last = Idle => \A i \in Issues :
    IsBlank(files[TargetOf(i)])
    => /\ readMarkdownFile(files[TargetOf(i)]) = EmptyDoc
       /\ readMarkdownFile(NoFile) = EmptyDoc
       /\ \A inc \in BOOLEAN, dryRun \in BOOLEAN, fault \in Faults :
            \A out \in {Call(i, inc, dryRun, fault)} :
              \A ref \in {syncIssue(i, Cfg(inc), dryRun, fault, remote,
                                    [files EXCEPT ![TargetOf(i)] = NoFile],
                                    dirExists)} :
                /\ out.result = ref.result
                /\ out.thrown = ref.thrown
                /\ out.result.message = "done"
                   => out.files[TargetOf(i)] = ref.files[TargetOf(i)]
                /\ out.result.success
                   => out.result.action = "created"

\* issue 1 was written over the empty file and reported as created
C26_Witness ==
  /\ last.result.action = "created"
  /\ last.result.message = "done"
  /\ last.result.filename = FirstTarget
  /\ files[FirstTarget].fm.id = 1

\* -------------------------------------------- mappers applied on their own
TrackBys == {"journalId", "createdOn"}

\* the sort key: a.id, or new Date(a.created_on).getTime()
Key(journal, trackBy) ==
  IF trackBy = "journalId" THEN journal.id ELSE journal.created_on

\* the entries rendered in the order they were given
SortByKey_AsGiven(journals, trackBy) == journals

\* [...journals].sort(compare): Array.prototype.sort is stable
RECURSIVE SortByKey(_, _)
SortByKey(journals, trackBy) ==
  IF journals = <<>> THEN <<>>
  ELSE LET k == CHOOSE x \in 1..Len(journals) :
                  \A y \in 1..Len(journals) :
                    \/ Key(journals[x], trackBy) < Key(journals[y], trackBy)
                    \/ /\ Key(journals[x], trackBy) = Key(journals[y], trackBy)
                       /\ x <= y
           rest == [n \in 1..(Len(journals) - 1) |->
                      IF n < k THEN journals[n] ELSE journals[n + 1]]
       IN <<journals[k]>> \o SortByKey(rest, trackBy)

\* mapJournalsToComments(journals, config) for either config.trackBy
mapJournalsToCommentsBy(journals, trackBy) ==
  IF Len(journals) = 0 THEN <<>>
  ELSE Trim(RenderAll(SortByKey(journals, trackBy)))

\* the argument array after the call: the sort works on a copy
ArrayAfterRender(journals, trackBy) == journals

\* how the times of the entries relate to their ids: the later id made
\* earlier, or ids made two at a time
Clocks == {"reversed", "paired"}

CreatedOn(id, clock) ==
  IF clock = "reversed" THEN MaxEntries + 1 - id ELSE (id + 1) \div 2

\* an entry: its id, its note (<<>> when absent or empty, a blank, or text)
\* and the time it was made
Entries(clock) ==
  {[id |-> id, notes |-> notes, created_on |-> CreatedOn(id, clock)] :
     id \in 1..MaxEntries, notes \in {<<>>, <<" ">>, <<"n">>}}

\* lists of n entries of distinct ids, in every order
RECURSIVE ListsOfLen(_, _)
ListsOfLen(n, clock) ==
  IF n = 0 THEN {<<>>}
  ELSE {Append(pr[1], pr[2]) :
          pr \in {p \in ListsOfLen(n - 1, clock) \X Entries(clock) :
                    \A x \in 1..Len(p[1]) : p[1][x].id # p[2].id}}

JournalLists ==
  UNION {ListsOfLen(n, clock) : n \in 0..MaxEntries, clock \in Clocks}

\* no marker, a negative one, zero, and every id around those of the list
Markers == {Null, 0 - 2} \cup 0..(MaxEntries + 1)

InitMappers ==
  /\ AtRest
  /\ files = [p \in Paths |-> NoFile]
  /\ \/ \E l \in JournalLists, m \in Markers :
          input = <<[fn |-> "select", journals |-> l, lastJournalId |-> m]>>
     \/ \E l \in JournalLists, t \in TrackBys :
          input = <<[fn |-> "render", journals |-> l, trackBy |-> t]>>
  /\ output = NoOutput

\* extractNewJournals(allJournals, lastJournalId)
SelectNew ==
  /\ input # NoInput
  /\ input[1].fn = "select"
  /\ output = NoOutput
  /\ output' = <<extractNewJournals(input[1].journals, input[1].lastJournalId)>>
  /\ UNCHANGED <<engineVars, input>>

\* mapJournalsToComments(journals, config)
RenderComments ==
  /\ input # NoInput
  /\ input[1].fn = "render"
  /\ output = NoOutput
  /\ output' = <<mapJournalsToCommentsBy(input[1].journals, input[1].trackBy)>>
  /\ input' = <<[input[1] EXCEPT
                   !.journals = ArrayAfterRender(input[1].journals,
                                                 input[1].trackBy)]>>
  /\ UNCHANGED engineVars

NextMappers == SelectNew \/ RenderComments

SpecMappers == InitMappers /\ [][NextMappers]_vars

Selected == input # NoInput /\ output # NoOutput /\ input[1].fn = "select"

\* C27: extractNewJournals returns the whole list when the marker is absent
\* and otherwise exactly the entries whose id is strictly greater than the
\* marker, in their input order, for every numeric marker
C27_SelectNew ==
  Selected =>
    LET l == input[1].journals
        m == input[1].lastJournalId
        Newer(j) == j.id > m
    IN IF m = Null THEN output[1] = l ELSE output[1] = SelectSeq(l, Newer)

\* a marker in the middle of a list that is not in id order: an older entry
\* is dropped, two newer ones are kept in the order they came
C27_Witness ==
  /\ Selected
  /\ input[1].lastJournalId = 1
  /\ Len(input[1].journals) = 3
  /\ Len(output[1]) = 2
  /\ output[1][1].id > output[1][2].id

Rendered == input # NoInput /\ output # NoOutput /\ input[1].fn = "render"

\* whether an entry's note has text
Noted(j) == Trim(j.notes) # <<>>

\* the section headings of a rendered text, in the order they appear
HeadingsOf(text, journals) ==
  LET IsHeading(t) == \E x \in 1..Len(journals) : Heading(journals[x]) = t
  IN SelectSeq(text, IsHeading)

\* the entry a heading belongs to
EntryOf(heading, journals) ==
  journals[CHOOSE x \in 1..Len(journals) : Heading(journals[x]) = heading]

\* C28: whatever the order of the input, the rendered text has one section
\* per entry whose note has text and none for an entry whose note is empty,
\* absent or blank, and the sections are in ascending order of the trackBy
\* key
C28_RenderedSections ==
  Rendered =>
    LET l == input[1].journals
        t == input[1].trackBy
        heads == HeadingsOf(output[1], l)
    IN /\ \A x \in 1..Len(l) :
            Cardinality({n \in 1..Len(heads) : heads[n] = Heading(l[x])})
              = IF Noted(l[x]) THEN 1 ELSE 0
       /\ \A a, b \in 1..Len(heads) :
            a < b => Key(EntryOf(heads[a], l), t) <= Key(EntryOf(heads[b], l), t)
       /\ t = "journalId" => output[1] = mapJournalsToComments(l)

\* C28: the call leaves the list it was given as it was
C28_InputNotMutated ==
  [][(output = NoOutput /\ output' # NoOutput /\ input[1].fn = "render")
     => input' = input]_vars

\* C28, both parts
C28_Render == []C28_RenderedSections /\ C28_InputNotMutated

\* three entries given against the order of their timestamps, one of them
\* without text, rendered by createdOn: two sections, the earlier first
C28_Witness ==
  /\ Rendered
  /\ input[1].trackBy = "createdOn"
  /\ Len(input[1].journals) = 3
  /\ input[1].journals[1].created_on > input[1].journals[3].created_on
  /\ Noted(input[1].journals[1]) /\ Noted(input[1].journals[3])
  /\ ~Noted(input[1].journals[2])
  /\ input[1].journals[1].id < input[1].journals[3].id
  /\ HeadingsOf(output[1], input[1].journals)
       = <<Heading(input[1].journals[3]), Heading(input[1].journals[1])>>

\* ---------------------------------------------------- the command line
\* one run of `redmine sync issue` or `redmine sync project`: the --json
\* flag, what loadConfig meets, the arguments given, and what goes wrong
\* during the sync (the cause tells a 404 from an unreachable server when
\* the fetch fails)
Invocations ==
  [cmd : {"issue", "project"}, json : BOOLEAN,
   config : {"ok", "invalid", "missing"},
   args : {"id", "url", "bad id", "bad url", "none"},
   fault : Faults, cause : {"not found", "network"}]

\* an async action whose promise is rejected: program.parse() does not wait
\* for it and nothing handles the rejection; Node ends with 1, or warns and
\* ends with 0 before version 15
Rejected == {0, 1}

\* the success field of the result the command receives
SyncSucceeds(inv) ==
  IF inv.cmd = "issue"
  THEN syncIssue(1, [include |-> TRUE, anchors |-> config.anchors,
                     pattern |-> config.pattern],
                 FALSE, inv.fault, remote, files, dirExists).result.success
  ELSE inv.fault = "none"

\* the codes the process can end with
ExitCodes(inv) ==
  IF inv.config # "ok" THEN Rejected
  ELSE IF inv.cmd = "issue" /\ inv.args \in {"bad id", "bad url", "none"}
  THEN {2}
  ELSE IF inv.json THEN {0}
  ELSE IF SyncSucceeds(inv) THEN {0}
  ELSE IF inv.cmd = "issue" THEN {4} ELSE {5}

InitCli ==
  /\ AtRest
  /\ files = [p \in Paths |-> NoFile]
  /\ input \in {<<inv>> : inv \in Invocations}
  /\ output = NoOutput

\* the command runs and the process ends
RunCommand ==
  /\ input # NoInput
  /\ output = NoOutput
  /\ \E code \in ExitCodes(input[1]) : output' = <<code>>
  /\ UNCHANGED <<engineVars, input>>

NextCli == RunCommand

SpecCli == InitCli /\ [][NextCli]_vars

\* the code the documented table gives a run
DocumentedCode(inv) ==
  IF inv.config # "ok" THEN 2
  ELSE IF inv.cmd = "issue" /\ inv.args \in {"bad id", "bad url", "none"} THEN 2
  ELSE IF inv.fault = "none" THEN 0
  ELSE IF inv.fault = "fetch" /\ inv.cause = "not found" THEN 4
  ELSE 5

\* C29: the process exits 0 on success, 2 on a validation error of the
\* configuration or the arguments, 4 when the issue or project is not found
\* and 5 on a system or network error, with and without --json
C29_ExitCodes ==
  output # NoOutput => output[1] = DocumentedCode(input[1])

\* C29, the part the code keeps: a loaded configuration with bad arguments
\* ends `sync issue` with 2, and a run that succeeds ends with 0
C29_ArgumentsAndSuccess ==
  (output # NoOutput /\ input[1].config = "ok")
  => /\ (input[1].cmd = "issue" /\ input[1].args \in {"bad id", "bad url", "none"})
        => output[1] = 2
     /\ DocumentedCode(input[1]) = 0 => output[1] = 0

\* --------------------------------------------------- slugs in a shared set
\* the titles: ten letters, twelve letters with the same first ten, a title
\* whose slug is what deduplication makes of the first, and a short one
Titles ==
  {<<"A", "b", "c", "d", "e", "f", "g", "h", "i", "j">>,
   <<"A", "b", "c", "d", "e", "f", "g", "h", "i", "j", "k", "l">>,
   <<"a", "b", "c", "d", "e", "f", "g", "h", " ", "1">>,
   <<"A", "b", "c", "!">>}

\* slugify(title, {lower, strict: true}) on these characters: what is not a
\* letter, a digit or a space is removed, the ends are trimmed, a space
\* becomes "-", and letters are lowered
RECURSIVE SlugChars(_, _)
SlugChars(title, lower) ==
  IF title = <<>> THEN <<>>
  ELSE LET c == Head(title)
       IN (CASE c = "!" -> <<>>
             [] c = " " -> <<"-">>
             [] c = "A" -> IF lower THEN <<"a">> ELSE <<"A">>
             [] OTHER -> <<c>>)
          \o SlugChars(Tail(title), lower)

slugify(title, lower) ==
  SlugChars(Trim(SelectSeq(title, LAMBDA c : c # "!")), lower)

\* the decimal digits of a positive number
RECURSIVE Digits(_)
Digits(n) ==
  IF n < 10 THEN <<ToString(n)>> ELSE Digits(n \div 10) \o <<ToString(n % 10)>>

\* String.prototype.substring(0, n)
Substring0(str, n) ==
  IF n <= 0 THEN <<>> ELSE IF n >= Len(str) THEN str ELSE SubSeq(str, 1, n)

\* the candidate the loop makes of a counter
Candidate(slug, counter, maxLength) ==
  LET suffix == <<"-">> \o Digits(counter)
  IN Substring0(slug, maxLength - Len(suffix)) \o suffix

\* while (existingSlugs.has(finalSlug)) { ... counter++ }: the slug the loop
\* ends with and the counter it ends at; candidates of different counters
\* differ, so a loop still running after one round per slug of the set and
\* one more never ends
RECURSIVE DedupeLoop(_, _, _, _, _)
DedupeLoop(slug, finalSlug, counter, maxLength, existingSlugs) ==
  IF finalSlug \notin existingSlugs
  THEN [ended |-> TRUE, finalSlug |-> finalSlug, counter |-> counter]
  ELSE IF counter > Cardinality(existingSlugs) + 1
  THEN [ended |-> FALSE, finalSlug |-> finalSlug, counter |-> counter]
  ELSE DedupeLoop(slug, Candidate(slug, counter, maxLength), counter + 1,
                  maxLength, existingSlugs)

\* the counter does not advance
DedupeOnce_SameSuffix(slug, maxLength, existingSlugs) ==
  [ended |-> TRUE,
   finalSlug |-> IF slug \in existingSlugs
                 THEN Candidate(slug, 1, maxLength) ELSE slug,
   counter |-> 1]

\* let finalSlug = slug; let counter = 1; the loop
DedupeOnce(slug, maxLength, existingSlugs) ==
  DedupeLoop(slug, slug, 1, maxLength, existingSlugs)

\* generateSlug(title, config, existingSlugs): the slug returned, the set
\* after the call, and whether the call returned
generateSlugIn(title, slugConfig, existingSlugs) ==
  LET slug == Substring0(slugify(title, slugConfig.lowercase),
                         slugConfig.maxLength)
  IN IF ~slugConfig.dedupe
     THEN [returned |-> TRUE, slug |-> slug, existingSlugs |-> existingSlugs]
     ELSE LET loop == DedupeOnce(slug, slugConfig.maxLength, existingSlugs)
          IN [returned |-> loop.ended, slug |-> loop.finalSlug,
              existingSlugs |-> IF loop.ended
                                THEN existingSlugs \cup {loop.finalSlug}
                                ELSE existingSlugs]

\* filename.slug of the configuration: maxLength at the least value the
\* schema admits, so that suffixes need room
SlugConfigs == [maxLength : {10}, dedupe : BOOLEAN, lowercase : BOOLEAN]

\* a set of slugs, empty, and the slugs returned so far
InitSlug ==
  /\ AtRest
  /\ files = [p \in Paths |-> NoFile]
  /\ input \in {<<c>> : c \in SlugConfigs}
  /\ output = <<[existingSlugs |-> {}, slugs |-> <<>>, hung |-> FALSE]>>

\* one more call with the shared set
GenerateSlug(title) ==
  /\ input # NoInput
  /\ output # NoOutput
  /\ ~output[1].hung
  /\ Len(output[1].slugs) < MaxCalls
  /\ \E call \in {generateSlugIn(title, input[1], output[1].existingSlugs)} :
       output' = <<[existingSlugs |-> call.existingSlugs,
                    slugs |-> IF call.returned
                              THEN Append(output[1].slugs, call.slug)
                              ELSE output[1].slugs,
                    hung |-> ~call.returned]>>
  /\ UNCHANGED <<engineVars, input>>

NextSlug == \E title \in Titles : GenerateSlug(title)

SpecSlug == InitSlug /\ [][NextSlug]_vars

\* C30: with dedupe on, the slugs returned are pairwise distinct, none is
\* longer than maxLength, each is in the set, and no call hangs
C30_DistinctAndBounded ==
  (input # NoInput /\ output # NoOutput /\ input[1].dedupe)
  => LET slugs == output[1].slugs
     IN /\ ~output[1].hung
        /\ \A a, b \in 1..Len(slugs) : a # b => slugs[a] # slugs[b]
        /\ \A a \in 1..Len(slugs) :
             /\ Len(slugs[a]) <= input[1].maxLength
             /\ slugs[a] \in output[1].existingSlugs

\* the slug a call is about to return: the plain slug when it is free,
\* else the candidate of the least counter that is free
FirstFree(slug, maxLength, existingSlugs) ==
  IF slug \notin existingSlugs THEN slug
  ELSE Candidate(slug,
                 CHOOSE k \in 1..(Cardinality(existingSlugs) + 1) :
                   /\ Candidate(slug, k, maxLength) \notin existingSlugs
                   /\ \A m \in 1..(k - 1) :
                        Candidate(slug, m, maxLength) \in existingSlugs,
                 maxLength)

\* C30: with dedupe on, each call returns a slug that was not in the set
\* before it and is in the set after it, the set gains nothing else, and
\* the suffixes -1, -2, ... are tried in order
C30_FreshEachCall ==
  [][(input # NoInput /\ input[1].dedupe)
     => LET slugs == output'[1].slugs
            new == slugs[Len(slugs)]
        IN /\ Len(slugs) = Len(output[1].slugs) + 1
           /\ new \notin output[1].existingSlugs
           /\ output'[1].existingSlugs = output[1].existingSlugs \cup {new}
           /\ \E title \in Titles :
                new = FirstFree(Substring0(slugify(title, input[1].lowercase),
                                           input[1].maxLength),
                                input[1].maxLength, output[1].existingSlugs)]_vars

\* C30, both parts
C30_Dedupe == []C30_DistinctAndBounded /\ C30_FreshEachCall

\* four calls: the ten-letter slug, its twelve-letter twin cut to make room
\* for -1, the twin again at -2, and the title that spells the first
\* candidate pushed on to -3
C30_Witness ==
  /\ input # NoInput /\ output # NoOutput
  /\ input[1].dedupe /\ input[1].lowercase
  /\ Len(output[1].slugs) = 4
  /\ output[1].slugs[1] = <<"a", "b", "c", "d", "e", "f", "g", "h", "i", "j">>
  /\ output[1].slugs[2] = <<"a", "b", "c", "d", "e", "f", "g", "h", "-", "1">>
  /\ output[1].slugs[3] = <<"a", "b", "c", "d", "e", "f", "g", "h", "-", "2">>
  /\ output[1].slugs[4] = <<"a", "b", "c", "d", "e", "f", "g", "h", "-", "3">>

\* ------------------------------------------- the steps of one invocation
\* the moves an invocation can make: fetch, then read, then (the decision
\* taken) the directory and the write, or the return
StepOrder ==
  {<<"none", "fetch">>, <<"fetch", "read">>, <<"fetch", "return">>,
   <<"read", "mkdir">>, <<"read", "return">>, <<"mkdir", "write">>,
   <<"mkdir", "return">>, <<"write", "return">>, <<"return", "counted">>}

\* C31, first part: the steps of an invocation come in the order fetch,
\* read, decide, write; a dry run fetches and reads and leaves out only the
\* write
C31_StepOrder ==
  [][\A i \in Issues :
       /\ (task'[i].pc # task[i].pc /\ task'[i].pc # "none")
          => <<task[i].pc, task'[i].pc>> \in StepOrder
       /\ (task[i].pc = "read" /\ task'[i].pc # "read" /\ run.dryRun)
          => (task'[i].pc = "return" /\ files' = files)
       /\ (files' # files /\ task[i].pc = "write" /\ task'[i].pc = "return")
          => ~run.dryRun]_vars

\* invocation i has read its file and has not yet written it
ReadNotWritten(i) == task[i].pc \in {"mkdir", "write"}

\* C31, second part: between an invocation's read and its write no other
\* invocation reads or writes the same path
C31_NoInterleaving ==
  [][\A i \in Issues, j \in Issues :
       (/\ i # j
        /\ ReadNotWritten(i)
        /\ task[j].pc \in {"read", "write"}
        /\ task'[j].pc # task[j].pc)
       => task[j].filename # task[i].filename]_vars

\* C31: both parts
C31_SequentialSteps == C31_StepOrder /\ C31_NoInterleaving

\* C31, second part, where every issue has a path of its own: under the
\* default pattern no other invocation touches the path
C31_NoInterleavingOwnPath ==
  [][config.pattern = DefaultPattern
     => \A i \in Issues, j \in Issues :
          (/\ i # j
           /\ ReadNotWritten(i)
           /\ task[j].pc \in {"read", "write"}
           /\ task'[j].pc # task[j].pc)
          => task[j].filename # task[i].filename]_vars

\* ------------------------------------------------ one request of the client
\* how an attempt can fail: no response, or a response that is not ok
Failures == {"network", "http"}

\* request(path) has called pRetry and no attempt has been made
NewRequest ==
  [phase |-> "attempting", attempts |-> 0, log |-> <<>>, value |-> 0,
   surfaced |-> 0]

\* defaults.retry.retries of the configuration
InitRetry ==
  /\ AtRest
  /\ files = [p \in Paths |-> NoFile]
  /\ input \in {<<[retries |-> r]>> : r \in 0..MaxRetries}
  /\ output = <<NewRequest>>

\* fetch answers with an ok response: attempt returns the body, pRetry
\* resolves with it
AttemptSucceeds ==
  /\ output[1].phase = "attempting"
  /\ output' = <<[output[1] EXCEPT
                    !.phase = "resolved",
                    !.attempts = @ + 1,
                    !.log = Append(@, "ok"),
                    !.value = output[1].attempts + 1]>>
  /\ UNCHANGED <<engineVars, input>>

\* one attempt more than the options allow
AttemptFails_OneMore(failure) ==
  /\ output[1].phase = "attempting"
  /\ output' = <<[output[1] EXCEPT
                    !.phase = IF output[1].attempts + 1 > input[1].retries + 1
                              THEN "rejected" ELSE "waiting",
                    !.attempts = @ + 1,
                    !.log = Append(@, failure)]>>
  /\ UNCHANGED <<engineVars, input>>

\* attempt throws: onFailedAttempt warns, and pRetry either waits before
\* the next attempt or, with no retry left, rejects with the error
AttemptFails(failure) ==
  /\ output[1].phase = "attempting"
  /\ output' = <<[output[1] EXCEPT
                    !.phase = IF output[1].attempts + 1 > input[1].retries
                              THEN "rejected" ELSE "waiting",
                    !.attempts = @ + 1,
                    !.log = Append(@, failure)]>>
  /\ UNCHANGED <<engineVars, input>>

\* the backoff timer fires and the next attempt starts
BackoffElapses ==
  /\ output[1].phase = "waiting"
  /\ output' = <<[output[1] EXCEPT !.phase = "attempting"]>>
  /\ UNCHANGED <<engineVars, input>>

\* the rejection reaches the caller's catch block, which returns a failed
\* result and makes no request
Surface ==
  /\ output[1].phase = "rejected"
  /\ output' = <<[output[1] EXCEPT !.phase = "surfaced", !.surfaced = @ + 1]>>
  /\ UNCHANGED <<engineVars, input>>

NextRetry ==
  \/ AttemptSucceeds
  \/ \E failure \in Failures : AttemptFails(failure)
  \/ BackoffElapses
  \/ Surface

SpecRetry == InitRetry /\ [][NextRetry]_vars

\* C32: a request never makes more than retries + 1 attempts; it resolves
\* with the value of its first successful attempt, which is its last; it
\* rejects only after retries + 1 failed attempts and the error is surfaced
\* once
C32_AttemptsCapped ==
  LET r == output[1]
  IN /\ r.attempts <= input[1].retries + 1
     /\ r.attempts = Len(r.log)
     /\ \A k \in 1..Len(r.log) : r.log[k] = "ok" => k = Len(r.log)
     /\ r.phase = "resolved"
        <=> (r.log # <<>> /\ r.log[Len(r.log)] = "ok")
     /\ r.phase = "resolved" => r.value = r.attempts
     /\ r.phase \in {"rejected", "surfaced"}
        => r.attempts = input[1].retries + 1
     /\ r.surfaced = IF r.phase = "surfaced" THEN 1 ELSE 0

\* C32: once the request has resolved or rejected no attempt follows
C32_NoAttemptAfterSettling ==
  [][output[1].phase \in {"resolved", "rejected", "surfaced"}
     => output'[1].attempts = output[1].attempts]_vars

\* C32, both parts
C32_RetryCap == []C32_AttemptsCapped /\ C32_NoAttemptAfterSettling

\* three retries, four failed attempts, the error surfaced
C32_Witness ==
  /\ input[1].retries = 3
  /\ output[1].phase = "surfaced"
  /\ output[1].attempts = 4
  /\ output[1].surfaced = 1

\* two failed attempts, then the third returns its value
C32_WitnessResolved ==
  /\ input[1].retries = 3
  /\ output[1].phase = "resolved"
  /\ output[1].log = <<"network", "http", "ok">>
  /\ output[1].value = 3

\* ------------------------------------------------ getIssuesConcurrently
\* the matching issues of a remote that does not change, in the order the
\* server lists them: up to MaxPages issues of distinct ids
RECURSIVE MatchingOfLen(_)
MatchingOfLen(n) ==
  IF n = 0 THEN {<<>>}
  ELSE {Append(pr[1], pr[2]) :
          pr \in {p \in MatchingOfLen(n - 1) \X (1..MaxPages) :
                    \A x \in 1..Len(p[1]) : p[1][x] # p[2]}}

Matchings == UNION {MatchingOfLen(n) : n \in 0..MaxPages}

\* Math.ceil(totalCount / pageSize)
CeilDiv(a, b) == (a + b - 1) \div b

\* the response of getIssues(projectId, {pageSize, offset}): the issues of
\* the list from the offset on, pageSize at most
PageOf(matching, offset, pageSize) ==
  IF offset >= Len(matching) THEN <<>>
  ELSE SubSeq(matching, offset + 1,
              IF offset + pageSize < Len(matching)
              THEN offset + pageSize ELSE Len(matching))

\* this.concurrencyLimit(...) called for every page in order under a limit
DispatchUnder(totalPages, limit) ==
  [p \in 1..MaxPages |->
     IF p > totalPages THEN "none"
     ELSE IF p <= limit THEN "inflight" ELSE "queued"]

\* the page results joined in the order the responses came
Flat_AsCompleted(got, order) ==
  LET RECURSIVE Join(_)
      Join(k) == IF k > Len(order) THEN <<>> ELSE got[order[k]] \o Join(k + 1)
  IN Join(1)

\* pageResults.flat(): Promise.all keeps the order of the promises
Flat(got, order) ==
  LET RECURSIVE Join(_)
      Join(p) == IF p > MaxPages THEN <<>> ELSE got[p] \o Join(p + 1)
  IN Join(1)

\* the call has sent its first request, for the total count
NewListing ==
  [phase |-> "counting", pages |-> NoPages,
   got |-> [p \in 1..MaxPages |-> <<>>], offsets |-> {}, order |-> <<>>,
   issues |-> <<>>, result |-> NewResult]

InitPaging ==
  /\ AtRest
  /\ files = [p \in Paths |-> NoFile]
  /\ input \in {<<[matching |-> m, pageSize |-> s, concurrency |-> c]>> :
                  m \in Matchings, s \in 1..MaxPages, c \in 1..2}
  /\ output = <<NewListing>>

\* the first response arrives: total_count gives the number of pages, and
\* one request per page goes to the limiter, which starts the first ones
TotalArrives ==
  /\ output[1].phase = "counting"
  /\ LET totalPages == CeilDiv(Len(input[1].matching), input[1].pageSize)
         pages == DispatchUnder(totalPages, input[1].concurrency)
     IN output' = <<[output[1] EXCEPT
                       !.phase = "paging",
                       !.pages = pages,
                       !.offsets = {(p - 1) * input[1].pageSize :
                                      p \in {q \in 1..MaxPages :
                                               pages[q] = "inflight"}}]>>
  /\ UNCHANGED <<engineVars, input>>

\* the response of a page request arrives; the limiter starts the oldest
\* queued request
PageReturns(p) ==
  /\ output[1].phase = "paging"
  /\ output[1].pages[p] = "inflight"
  /\ LET pages == StartNext([output[1].pages EXCEPT ![p] = "done"])
     IN output' = <<[output[1] EXCEPT
                       !.pages = pages,
                       !.got[p] = PageOf(input[1].matching,
                                         (p - 1) * input[1].pageSize,
                                         input[1].pageSize),
                       !.order = Append(@, p),
                       !.offsets = @ \cup {(q - 1) * input[1].pageSize :
                                             q \in {x \in 1..MaxPages :
                                                      pages[x] = "inflight"}}]>>
  /\ UNCHANGED <<engineVars, input>>

\* Promise.all resolves, the pages are joined and returned; syncProject
\* records totalIssues and returns at once when the list is empty
ListReturns ==
  /\ output[1].phase = "paging"
  /\ \A p \in 1..MaxPages : output[1].pages[p] \in {"none", "done"}
  /\ \E issues \in {Flat(output[1].got, output[1].order)} :
       output' = <<[output[1] EXCEPT
                      !.phase = IF Len(issues) = 0 THEN "returned" ELSE "listed",
                      !.issues = issues,
                      !.result.totalIssues = Len(issues)]>>
  /\ UNCHANGED <<engineVars, input>>

NextPaging ==
  \/ TotalArrives
  \/ \E p \in 1..MaxPages : PageReturns(p)
  \/ ListReturns

SpecPaging == InitPaging /\ [][NextPaging]_vars

C33_WitnessEmpty ==
  /\ output[1].phase = "returned"
  /\ input[1].matching = <<>>
  /\ output[1].offsets = {}
  /\ output[1].result.success

\* C34: at every point of a run, created + updated + skipped + failed =
\* processed and processed <= totalIssues; a run that has returned has
\* processed every issue of the list it fetched
C34_Counters ==
  LET r == run.result
  IN /\ r.created + r.updated + r.skipped + r.failed = r.processed
     /\ r.processed <= r.totalIssues
     /\ run.phase = "returned" => r.processed = r.totalIssues

\* a second run over two issues, midway: one invocation counted as skipped
\* while the other is still at work
C34_Witness ==
  /\ run.phase = "syncing"
  /\ run.runs = 2
  /\ run.result.totalIssues = 2
  /\ run.result.processed = 1
  /\ run.result.skipped = 1
  /\ \E i \in Issues : task[i].pc \in {"fetch", "read", "mkdir", "write"}

\* C35: whenever syncProject has returned, the errors list has one entry
\* per failed issue: its length is the failed count
C35_ErrorsMatchFailed ==
  run.phase = "returned" => Len(run.result.errors) = run.result.failed

\* C35 for the runs whose issue list was fetched
C35_ErrorsMatchFailedListed ==
  (/\ run.phase = "returned"
   /\ \A k \in 1..Len(run.result.errors) : run.result.errors[k].issueId # 0)
  => /\ Len(run.result.errors) = run.result.failed
     /\ \A i \in Issues :
          Cardinality({k \in 1..Len(run.result.errors) :
                         run.result.errors[k].issueId = i})
            = IF task[i].pc = "counted" /\ ~task[i].out.success THEN 1 ELSE 0

\* C36: a syncIssue call that returns success=false has changed nothing in
\* storage: every file is as it was and no file or directory was created
C36_FailureChangesNothing ==
  last = Idle
  => \A i \in Issues, inc \in BOOLEAN, dryRun \in BOOLEAN, fault \in Faults :
       \A out \in {Call(i, inc, dryRun, fault)} :
         ~out.result.success
         => /\ out.files = files
            /\ out.dir = dirExists

\* C36, the part the code keeps: a failed call leaves every file as it
\* was, and leaves the directory as it was unless the failure is writeFile's
C36_FailureKeepsFiles ==
  last = Idle
  => \A i \in Issues, inc \in BOOLEAN, dryRun \in BOOLEAN, fault \in Faults :
       \A out \in {Call(i, inc, dryRun, fault)} :
         ~out.result.success
         => /\ out.files = files
            /\ fault # "write" => out.dir = dirExists

\* the paths of the files that record issue i in their frontmatter
FilesOf(i) == {p \in Paths : files[p].exists /\ files[p].fm.id = i}

\* C37: after any sequence of syncIssue calls made one at a time, at most
\* one file of the output directory records a given issue id, also when the
\* subject of the issue changes between the calls
C37_OneFilePerIssue ==
  \A i \in Issues : Cardinality(FilesOf(i)) <= 1

\* C37, what the code keeps: two files that record the same issue id were
\* written under two different subjects of the issue
C37_OneFilePerSubject ==
  \A i \in Issues : \A p \in FilesOf(i), q \in FilesOf(i) :
    p # q => files[p].fm.subject # files[q].fm.subject

\* ------------------------------------------------- filenames, as written
\* the ids and titles handed to generateFilename on its own: an id whose
\* digits start with another id's, titles whose slug starts with a digit,
\* and a title with an empty slug
FilenameIds == {1, 2, 12}

FilenameTitles ==
  {<<"x">>, <<"2", " ", "x">>, <<"A">>, <<"!">>}

\* the pattern as the characters and placeholders it is made of
PatternTokens(pattern) ==
  IF pattern = DefaultPattern
  THEN <<"{issueId}", "-", "{slug}", ".md">>
  ELSE <<"{slug}", ".md">>

\* String.prototype.replace(placeholder, str): the first occurrence only
RECURSIVE ReplaceFirst(_, _, _)
ReplaceFirst(tokens, placeholder, str) ==
  IF tokens = <<>> THEN <<>>
  ELSE IF Head(tokens) = placeholder THEN str \o Tail(tokens)
  ELSE <<Head(tokens)>> \o ReplaceFirst(Tail(tokens), placeholder, str)

\* only the last digit of the id is written
renderFilename_LastDigit(issueId, slug, pattern) ==
  ReplaceFirst(ReplaceFirst(PatternTokens(pattern), "{issueId}",
                            Digits(issueId % 10)),
               "{slug}", slug)

\* config.pattern.replace('{issueId}', issueId.toString())
\*               .replace('{slug}', slug)
renderFilename(issueId, slug, pattern) ==
  ReplaceFirst(ReplaceFirst(PatternTokens(pattern), "{issueId}",
                            Digits(issueId)),
               "{slug}", slug)

\* generateFilename(issueId, title, config) as syncIssue calls it: no set
\* of slugs is passed, so each call starts from an empty one
generateFilenameText(issueId, title, filenameConfig) ==
  renderFilename(issueId,
                 generateSlugIn(title, filenameConfig.slug, {}).slug,
                 filenameConfig.pattern)

\* config.filename
FilenameConfigs ==
  [pattern : {DefaultPattern, SlugPattern}, slug : SlugConfigs]

\* no filename made yet
InitFilename ==
  /\ AtRest
  /\ files = [p \in Paths |-> NoFile]
  /\ input \in {<<c>> : c \in FilenameConfigs}
  /\ output = <<[names |-> <<>>]>>

\* one call of generateFilename
GenerateFilename(issueId, title) ==
  /\ input # NoInput
  /\ output # NoOutput
  /\ Len(output[1].names) < MaxNames
  /\ output' = <<[names |->
                    Append(output[1].names,
                           [issueId |-> issueId, title |-> title,
                            filename |->
                              generateFilenameText(issueId, title,
                                                   input[1])])]>>
  /\ UNCHANGED <<engineVars, input>>

NextFilename ==
  \E issueId \in FilenameIds, title \in FilenameTitles :
    GenerateFilename(issueId, title)

SpecFilename == InitFilename /\ [][NextFilename]_vars

C38_WitnessCollision ==
  /\ input # NoInput /\ output # NoOutput
  /\ input[1].pattern = SlugPattern
  /\ Len(output[1].names) = 2
  /\ output[1].names[1].issueId = 1
  /\ output[1].names[2].issueId = 2
  /\ output[1].names[1].filename = output[1].names[2].filename

\* C38, for syncIssue: with the default pattern no call finds another
\* issue's id in its target file
C38_NoConflict ==
  config.pattern = DefaultPattern => last.result.message # "conflict"

\* C38, for a project sync: with the default pattern no invocation is
\* refused for an identity conflict, and no two invocations that are to
\* read or write have the same path
C38_NoSharedPath ==
  config.pattern = DefaultPattern
  => \A i \in Issues :
       /\ task[i].out.message # "conflict"
       /\ \A j \in Issues :
            (i # j /\ task[i].pc \in {"read", "mkdir", "write"}
                   /\ task[j].pc \in {"read", "mkdir", "write"})
            => task[i].filename # task[j].filename

\* ------------------------------------------------ getAllIssues, the loop
\* the call before its first request: the issues matching on the tracker,
\* const allIssues = []; let offset = 0; let hasMore = true
NewScan(matching) ==
  [pc |-> "loop", matching |-> matching, offset |-> 0,
   allIssues |-> <<>>, hasMore |-> TRUE]

\* the tracker answers a request for limit issues with serverLimit at most
\* (Redmine caps limit), and the caller asks for pageSize
InitScan ==
  /\ AtRest
  /\ files = [p \in Paths |-> NoFile]
  /\ input \in {<<[pageSize |-> s, serverLimit |-> l]>> :
                  s \in 1..MaxPages, l \in 1..MaxPages}
  /\ output \in {<<NewScan(m)>> : m \in Matchings}

\* while (hasMore) { await this.getIssues(projectId, {pageSize, offset})
RequestPage ==
  /\ input # NoInput /\ output # NoOutput
  /\ output[1].pc = "loop"
  /\ output[1].hasMore
  /\ output' = <<[output[1] EXCEPT !.pc = "await"]>>
  /\ UNCHANGED <<engineVars, input>>

\* the response arrives: allIssues.push(...response.issues); hasMore =
\* allIssues.length < response.total_count; offset += pageSize; the loop
\* goes round or the list is returned.  Every page from an offset past the
\* largest list is empty, so the offset is kept up to that point only.
ResponseArrives ==
  /\ input # NoInput /\ output # NoOutput
  /\ output[1].pc = "await"
  /\ LET limit == IF input[1].pageSize < input[1].serverLimit
                  THEN input[1].pageSize ELSE input[1].serverLimit
         response == [issues |-> PageOf(output[1].matching,
                                        output[1].offset, limit),
                      total_count |-> Len(output[1].matching)]
         allIssues == output[1].allIssues \o response.issues
         hasMore == Len(allIssues) < response.total_count
         offset == output[1].offset + input[1].pageSize
     IN output' = <<[output[1] EXCEPT
                       !.allIssues = allIssues,
                       !.hasMore = hasMore,
                       !.offset = IF offset > MaxPages THEN MaxPages
                                  ELSE offset,
                       !.pc = IF hasMore THEN "loop" ELSE "returned"]>>
  /\ UNCHANGED <<engineVars, input>>

\* getIssues rejects after its retries: the call rejects
ResponseFails ==
  /\ input # NoInput /\ output # NoOutput
  /\ output[1].pc = "await"
  /\ output' = <<[output[1] EXCEPT !.pc = "thrown"]>>
  /\ UNCHANGED <<engineVars, input>>

\* an issue is removed on the tracker, or stops matching, during the scan
IssueRemoved(k) ==
  /\ input # NoInput /\ output # NoOutput
  /\ output[1].pc \in {"loop", "await"}
  /\ k <= Len(output[1].matching)
  /\ output' = <<[output[1] EXCEPT
                    !.matching = SubSeq(@, 1, k - 1)
                                   \o SubSeq(@, k + 1, Len(@))]>>
  /\ UNCHANGED <<engineVars, input>>

NextScan ==
  \/ RequestPage
  \/ ResponseArrives
  \/ ResponseFails
  \/ \E k \in 1..MaxPages : IssueRemoved(k)

\* the loop sends its next request, and every request is answered
SpecScan ==
  /\ InitScan
  /\ [][NextScan]_vars
  /\ WF_vars(RequestPage)
  /\ WF_vars(ResponseArrives \/ ResponseFails)

\* C39: getAllIssues ends after finitely many page requests, also when the
\* pages bring fewer issues in total than total_count says
C39_Terminates ==
  <>(output # NoOutput /\ output[1].pc \in {"returned", "thrown"})

\* C39, what the code keeps: the call ends when every page is as long as
\* asked, up to the end of the list, also while issues are removed
C39_TerminatesOnFullPages ==
  (input # NoInput /\ input[1].serverLimit >= input[1].pageSize)
  => C39_Terminates

====
